---- MODULE Spec2Model ----
(***************************************************************************)
(* Model of the metrics aggregation of the FinancialDashboard component,   *)
(* in its four revisions:                                                   *)
(*   "App" = src/src/App.js            "P1" = src/unnamed/part_001          *)
(*   "FD"  = src/src/FinancialDashboard.js   "P2" = src/unnamed/part_002    *)
(*                                                                          *)
(* JavaScript numbers are modelled as exact rationals <<n, d>> (d > 0),     *)
(* NaN as <<0, 0>> and null as <<0, -1>>.  Sheet cells are strings,         *)
(* modelled as sequences of one-character strings, so that parseFloat and   *)
(* parseInt are the prefix parsers they are in JavaScript.                  *)
(***************************************************************************)
EXTENDS Integers, Sequences, FiniteSets, TLC

VARIABLES
  rev,        \* which revision of the component is deployed
  workbook,   \* the spreadsheet the server holds (sheet name -> rows)
  fetchOk,    \* whether the server answers the fetch with an OK status
  now,        \* the wall clock, in ticks
  pc,         \* position of loadData: "idle", "fetch", "buffer", "done"
  loading,    \* React state: loading
  error,      \* React state: error ("null" or the error's name)
  data,       \* React state: data (the published snapshot)
  setDataCalls, \* number of setData calls of the current run
  lastRun,    \* what the previous completed run of loadData published
  call,       \* a call frame of one of the pure helpers
  ret,        \* the value that call returned
  logged,     \* what the catch block of loadData wrote with console.error
  second      \* a second invocation of loadData: its position and locals

vars == <<rev, workbook, fetchOk, now, pc, loading, error, data,
          setDataCalls, lastRun, call, ret, logged, second>>

compVars == <<rev, workbook, fetchOk, now, pc, loading, error, data,
              setDataCalls, lastRun, logged, second>>

-----------------------------------------------------------------------------
(* Bounds of the model *)

\* calcGrowth is applied to every pair of integers 0..MaxAmount
MaxAmount == 10
\* the wallet sheet holds at most MaxUsers rows in the enumerated inputs
MaxUsers == 2
\* the clock advances at most MaxTicks ticks past the initial instant
MaxTicks == 1
\* resolution of the clock: ticks per second
TicksPerSec == 2

-----------------------------------------------------------------------------
(* JavaScript numbers *)

NaN == <<0, 0>>
Null == <<0, -1>>

Abs(n) == IF n < 0 THEN -n ELSE n

RECURSIVE GCD(_, _)
GCD(a, b) == IF b = 0 THEN a ELSE GCD(b, a % b)

\* the rational n/d in lowest terms, d > 0
Norm(n, d) == LET g == GCD(Abs(n), d) IN <<n \div g, d \div g>>

Num(n) == <<n, 1>>
IsNaN(a) == a[2] = 0
IsNull(a) == a[2] = -1
IsNum(a) == a[2] > 0

\* ToNumber: null converts to 0 in arithmetic and relational operators
ToNumber(a) == IF IsNull(a) THEN Num(0) ELSE a

Add(x, y) ==
  LET a == ToNumber(x)
      b == ToNumber(y)
  IN IF IsNaN(a) \/ IsNaN(b) THEN NaN
     ELSE LET g == GCD(a[2], b[2])
              l == (a[2] \div g) * b[2]
          IN Norm(a[1] * (l \div a[2]) + b[1] * (l \div b[2]), l)

Neg(x) == LET a == ToNumber(x) IN IF IsNaN(a) THEN NaN ELSE <<-a[1], a[2]>>

Sub(x, y) == Add(x, Neg(y))

Mul(x, y) ==
  LET a == ToNumber(x)
      b == ToNumber(y)
  IN IF IsNaN(a) \/ IsNaN(b) THEN NaN
     ELSE LET g1 == GCD(Abs(a[1]), b[2])
              g2 == GCD(Abs(b[1]), a[2])
          IN <<(a[1] \div g1) * (b[1] \div g2), (a[2] \div g2) * (b[2] \div g1)>>

\* x / y for y > 0 (every division of the code is guarded by previous > 0)
Div(x, y) ==
  LET a == ToNumber(x)
      b == ToNumber(y)
  IN IF IsNaN(a) \/ IsNaN(b) \/ b[1] <= 0 THEN NaN
     ELSE Mul(a, <<b[2], b[1]>>)

\* relational operators: false as soon as an operand is NaN
Gt(x, y) ==
  LET a == ToNumber(x)
      b == ToNumber(y)
  IN ~IsNaN(a) /\ ~IsNaN(b) /\ a[1] * b[2] > b[1] * a[2]

Le(x, y) ==
  LET a == ToNumber(x)
      b == ToNumber(y)
  IN ~IsNaN(a) /\ ~IsNaN(b) /\ a[1] * b[2] <= b[1] * a[2]

Ge(x, y) == Le(y, x)

\* truthiness of a number: 0 and NaN are falsy
TruthyNum(a) == IsNum(a) /\ a[1] # 0

-----------------------------------------------------------------------------
(* Strings and the parsers *)

Digits == <<"0", "1", "2", "3", "4", "5", "6", "7", "8", "9">>
IsDigit(c) == \E i \in 1..10 : Digits[i] = c
DigitVal(c) == (CHOOSE i \in 1..10 : Digits[i] = c) - 1

\* the value of an absent cell or property
Undefined == <<"undefined">>

\* truthiness of a cell: undefined and the empty string are falsy
Truthy(s) == s # Undefined /\ s # <<>>

\* decimal numeral of a natural number (how the export writes a number)
RECURSIVE Dec(_)
Dec(n) == IF n < 10 THEN <<Digits[n + 1]>> ELSE Dec(n \div 10) \o <<Digits[(n % 10) + 1]>>

RECURSIVE SkipSpaces(_)
SkipSpaces(s) == IF s # <<>> /\ Head(s) = " " THEN SkipSpaces(Tail(s)) ELSE s

\* the longest prefix of s made of digits
RECURSIVE DigitPrefix(_)
DigitPrefix(s) ==
  IF s # <<>> /\ IsDigit(Head(s)) THEN <<Head(s)>> \o DigitPrefix(Tail(s)) ELSE <<>>

RECURSIVE DigitsValue(_, _)
DigitsValue(s, acc) ==
  IF s = <<>> THEN acc ELSE DigitsValue(Tail(s), 10 * acc + DigitVal(Head(s)))

RECURSIVE Pow10(_)
Pow10(k) == IF k = 0 THEN 1 ELSE 10 * Pow10(k - 1)

\* String.prototype.replace(/,/g, '')
RECURSIVE StripCommas(_)
StripCommas(s) ==
  IF s = <<>> THEN <<>>
  ELSE IF Head(s) = "," THEN StripCommas(Tail(s))
  ELSE <<Head(s)>> \o StripCommas(Tail(s))

\* parseFloat(s): leading blanks, an optional sign, digits, an optional
\* fraction; whatever follows is ignored; NaN when there is no digit.
\* (Exponents and Infinity are not modelled.)
parseFloat(s) ==
  IF s = Undefined THEN NaN
  ELSE
    LET t == SkipSpaces(s)
        neg == t # <<>> /\ Head(t) = "-"
        u == IF t # <<>> /\ (Head(t) = "-" \/ Head(t) = "+") THEN Tail(t) ELSE t
        ip == DigitPrefix(u)
        rest == SubSeq(u, Len(ip) + 1, Len(u))
        fp == IF rest # <<>> /\ Head(rest) = "." THEN DigitPrefix(Tail(rest)) ELSE <<>>
        mag == Norm(DigitsValue(ip \o fp, 0), Pow10(Len(fp)))
    IN IF ip = <<>> /\ fp = <<>> THEN NaN
       ELSE IF neg THEN <<-mag[1], mag[2]>> ELSE mag

\* parseInt(s, 10): leading blanks, an optional sign, digits; NaN without one
parseInt(s) ==
  IF s = Undefined THEN NaN
  ELSE
    LET t == SkipSpaces(s)
        neg == t # <<>> /\ Head(t) = "-"
        u == IF t # <<>> /\ (Head(t) = "-" \/ Head(t) = "+") THEN Tail(t) ELSE t
        ip == DigitPrefix(u)
    IN IF ip = <<>> THEN NaN
       ELSE IF neg THEN Num(-DigitsValue(ip, 0)) ELSE Num(DigitsValue(ip, 0))

\* cell || '': a falsy cell is replaced by the empty string
OrEmpty(s) == IF Truthy(s) THEN s ELSE <<>>

\* cell || 0: a falsy cell is replaced by the number 0, whose string is "0"
OrZero(s) == IF Truthy(s) THEN s ELSE <<"0">>

-----------------------------------------------------------------------------
(* The pure helpers *)

Currencies == <<"KES", "UGX", "NGN", "USD", "CNY">>

\* a rate table whose USD rate is negative
exchangeRatesNegativeUSD ==
  [c \in {"UGX", "NGN", "USD", "CNY"} |->
     CASE c = "UGX" -> Norm(10000, 284659)
       [] c = "NGN" -> Norm(100, 1159)
       [] c = "USD" -> Norm(-1293827, 10000)
       [] c = "CNY" -> Norm(178, 10)]

\* exchangeRates: one unit of the currency in KES
exchangeRates ==
  [c \in {"UGX", "NGN", "USD", "CNY"} |->
     CASE c = "UGX" -> Norm(10000, 284659)    \* 1 / 28.4659
       [] c = "NGN" -> Norm(100, 1159)        \* 1 / 11.59
       [] c = "USD" -> Norm(1293827, 10000)   \* 129.3827
       [] c = "CNY" -> Norm(178, 10)]         \* 17.80

\* rates[currency], undefined (here NaN, which is falsy too) without entry
RateOf(rates, currency) ==
  IF currency \in DOMAIN rates THEN rates[currency] ELSE NaN

\* calcGrowth without its branch for previous = 0 < current
calcGrowthNoZeroPolicy(current, previous) ==
  IF Gt(previous, Num(0))
    THEN Mul(Div(Sub(current, previous), previous), Num(100))
    ELSE Num(0)

\* if (previous > 0) ...; else if (current > 0) return 100; return 0
calcGrowth(current, previous) ==
  IF Gt(previous, Num(0))
    THEN Mul(Div(Sub(current, previous), previous), Num(100))
    ELSE IF Gt(current, Num(0)) THEN Num(100)
    ELSE Num(0)

convertToKESAlwaysRate(volume, currency, rates) ==
  LET r == RateOf(rates, currency)
  IN Mul(volume, IF TruthyNum(r) THEN r ELSE Num(1))

\* a currency of "" stands for a falsy currency argument
convertToKES(volume, currency, rates) ==
  IF currency = "" \/ currency = "KES" THEN volume
  ELSE LET r == RateOf(rates, currency)
       IN Mul(volume, IF TruthyNum(r) THEN r ELSE Num(1))

-----------------------------------------------------------------------------
(* Sheets: a row maps column names to cells *)

YM_2024_12 == <<"2", "0", "2", "4", "-", "1", "2">>
YM_2025_01 == <<"2", "0", "2", "5", "-", "0", "1">>
YM_2025_02 == <<"2", "0", "2", "5", "-", "0", "2">>
TotalKey == <<"T", "o", "t", "a", "l">>
TotalUsersKey == <<"T", "o", "t", "a", "l", " ", "U", "s", "e", "r", "s">>

\* row[col]: undefined when the row has no such cell
Cell(row, col) == IF col \in DOMAIN row THEN row[col] ELSE Undefined

\* the {} of `find(...) || {}`
EmptyRow == [c \in {} |-> <<>>]

\* Array.prototype.find on the column col: index of the first match, 0 if none
FindIndex(rows, col, key) ==
  LET I == {i \in 1..Len(rows) : Cell(rows[i], col) = key}
  IN IF I = {} THEN 0 ELSE CHOOSE i \in I : \A j \in I : i <= j

FindIndexLast(rows, col, key) ==
  LET I == {i \in 1..Len(rows) : Cell(rows[i], col) = key}
  IN IF I = {} THEN 0 ELSE CHOOSE i \in I : \A j \in I : i >= j

\* a lookup that falls back to the first row of the sheet
RowOrFirst(rows, ym) ==
  LET i == FindIndex(rows, "YearMonth", ym)
  IN IF i # 0 THEN rows[i] ELSE IF Len(rows) > 0 THEN rows[1] ELSE EmptyRow

\* rows.find(m => m.YearMonth === ym) || {}
RowOrEmpty(rows, ym) ==
  LET i == FindIndex(rows, "YearMonth", ym)
  IN IF i = 0 THEN EmptyRow ELSE rows[i]

\* extractSheetData: workbook.Sheets[sheetName] is undefined for an absent
\* sheet, and XLSX.utils.sheet_to_json answers [] for an undefined sheet
extractSheetData(wb, sheetName) ==
  IF sheetName \in DOMAIN wb THEN wb[sheetName] ELSE <<>>

-----------------------------------------------------------------------------
(* Dates: a Date is its time value, in ticks since 2024-12-01 00:00 local *)

Day == 24 * 60 * 60 * TicksPerSec

\* new Date(year, monthIndex, day, h, m, s) for December 2024 .. March 2025
MkDate(year, monthIndex, day, h, m, s) ==
  LET before == CASE year = 2024 /\ monthIndex = 11 -> 0
                  [] year = 2025 /\ monthIndex = 0 -> 31
                  [] year = 2025 /\ monthIndex = 1 -> 62
                  [] year = 2025 /\ monthIndex = 2 -> 90
  IN (before + day - 1) * Day + ((h * 60 + m) * 60 + s) * TicksPerSec

\* the instant the clock shows when the page is first opened: that of the
\* export, financial_analysis_20250227_115233.xlsx
Now0 == MkDate(2025, 1, 27, 11, 52, 33)

\* d.setDate(d.getDate() + n), as n whole days
AddDays(t, n) == t + n * Day

\* a 'Last Transaction' cell holds the numeral of the instant's ticks;
\* new Date(cell) is Invalid Date (NaN) for anything else, '' included
DateCell(t) == Dec(t)

NewDate(s) ==
  IF s # Undefined /\ s # <<>> /\ DigitPrefix(s) = s
    THEN Num(DigitsValue(s, 0))
    ELSE NaN

\* lastTxDate >= startDate && lastTxDate <= endDate
InRange(d, startDate, endDate) ==
  Ge(d, Num(startDate)) /\ Le(d, Num(endDate))

-----------------------------------------------------------------------------
(* Active users *)

\* user.CUR && parseFloat(user.CUR) > 0
HoldsBalance(user, cur) ==
  Truthy(Cell(user, cur)) /\ Gt(parseFloat(Cell(user, cur)), Num(0))

\* the user passes the forEach body's guards for the range
ActiveInRange(user, startDate, endDate) ==
  /\ Truthy(Cell(user, "Last Transaction"))
  /\ InRange(NewDate(Cell(user, "Last Transaction")), startDate, endDate)

Count(rows, P(_)) == Cardinality({i \in 1..Len(rows) : P(rows[i])})

getActiveUsersByCurrencyInRange(walletBalances, startDate, endDate) ==
  [cur \in {"KES", "UGX", "NGN", "USD", "CNY"} |->
     Count(walletBalances,
           LAMBDA user : ActiveInRange(user, startDate, endDate)
                         /\ HoldsBalance(user, cur))]

\* walletBalances.filter(user => { const d = new Date(user['Last Transaction']
\* || ''); return d >= start && d <= end; }).length
distinctActive(walletBalances, startDate, endDate) ==
  Count(walletBalances,
        LAMBDA user : InRange(NewDate(OrEmpty(Cell(user, "Last Transaction"))),
                              startDate, endDate))

\* App.js / part_001: users whose last transaction is not before thirtyDaysAgo
activeUsersSince(walletBalances, thirtyDaysAgo) ==
  SelectSeq(walletBalances,
            LAMBDA user : /\ Truthy(Cell(user, "Last Transaction"))
                          /\ Ge(NewDate(Cell(user, "Last Transaction")),
                                Num(thirtyDaysAgo)))

\* the characters of a currency code
CodeText(cur) ==
  CASE cur = "KES" -> <<"K", "E", "S">>
    [] cur = "UGX" -> <<"U", "G", "X">>
    [] cur = "NGN" -> <<"N", "G", "N">>
    [] cur = "USD" -> <<"U", "S", "D">>
    [] cur = "CNY" -> <<"C", "N", "Y">>

\* user.CUR && user.CUR !== '0.00 CUR' && user.CUR !== '0.00'
NonZeroBalanceText(user, cur) ==
  LET c == Cell(user, cur)
  IN /\ Truthy(c)
     /\ c # <<"0", ".", "0", "0", " ">> \o CodeText(cur)
     /\ c # <<"0", ".", "0", "0">>

-----------------------------------------------------------------------------
(* Revenue and volume sums in KES *)

CurrencySet == {"KES", "UGX", "NGN", "USD", "CNY"}

\* if (row.CUR) total += parseFloat(row.CUR) * exchangeRates.CUR
AddConverted(total, row, cur) ==
  IF Truthy(Cell(row, cur))
    THEN Add(total, Mul(parseFloat(Cell(row, cur)), exchangeRates[cur]))
    ELSE total

\* if (row.KES) total += parseFloat(row.KES)
AddKES(total, row) ==
  IF Truthy(Cell(row, "KES")) THEN Add(total, parseFloat(Cell(row, "KES"))) ELSE total

\* the chain with the USD cell added as it is
sumRowKESUnconvertedUSD(row) ==
  LET t1 == AddKES(Num(0), row)
      t2 == AddConverted(t1, row, "NGN")
      t3 == AddConverted(t2, row, "UGX")
      t4 == IF Truthy(Cell(row, "USD"))
              THEN Add(t3, parseFloat(Cell(row, "USD"))) ELSE t3
  IN AddConverted(t4, row, "CNY")

\* the chain KES, NGN, UGX, USD, CNY that sums a row of Monthly_Revenue (or,
\* in part_002, of Monthly_Transaction_Volume) in KES
sumRowKES(row) ==
  LET t1 == AddKES(Num(0), row)
      t2 == AddConverted(t1, row, "NGN")
      t3 == AddConverted(t2, row, "UGX")
      t4 == AddConverted(t3, row, "USD")
  IN AddConverted(t4, row, "CNY")

\* part_001's February total: the same chain with the rates written out,
\* NGN and UGX as divisions by 11.59 and 28.4659
sumFebDataKES(row) ==
  LET has(cur) == Truthy(Cell(row, cur))
      val(cur) == parseFloat(Cell(row, cur))
      t1 == IF has("KES") THEN Add(Num(0), val("KES")) ELSE Num(0)
      t2 == IF has("NGN") THEN Add(t1, Div(val("NGN"), Norm(1159, 100))) ELSE t1
      t3 == IF has("UGX") THEN Add(t2, Div(val("UGX"), Norm(284659, 10000))) ELSE t2
      t4 == IF has("USD") THEN Add(t3, Mul(val("USD"), Norm(1293827, 10000))) ELSE t3
  IN IF has("CNY") THEN Add(t4, Mul(val("CNY"), Norm(178, 10))) ELSE t4

\* the reduce with the native amounts added as they are
RECURSIVE reduceWithoutConversion(_, _)
reduceWithoutConversion(row, k) ==
  IF k = 0 THEN Num(0)
  ELSE Add(reduceWithoutConversion(row, k - 1),
           parseFloat(OrZero(Cell(row, Currencies[k]))))

\* currencies.reduce((sum, c) => sum + convertToKES(parseFloat(row[c] || 0),
\* c, exchangeRates), 0)
RECURSIVE reduceToKES(_, _)
reduceToKES(row, k) ==
  IF k = 0 THEN Num(0)
  ELSE Add(reduceToKES(row, k - 1),
           convertToKES(parseFloat(OrZero(Cell(row, Currencies[k]))),
                        Currencies[k], exchangeRates))

-----------------------------------------------------------------------------
(* Trends and growth series *)

\* monthlyTransactionCount.filter(item => item.YearMonth !== 'Total')
TrendRows(monthlyTransactionCount) ==
  SelectSeq(monthlyTransactionCount,
            LAMBDA item : Cell(item, "YearMonth") # TotalKey)

\* part_002: one trend point per kept row, revenue and volume summed in KES
monthlyTrendsRaw_P2(mtc, monthlyRevenue, monthlyVolume) ==
  LET rows == TrendRows(mtc)
  IN [i \in 1..Len(rows) |->
       LET ym == Cell(rows[i], "YearMonth")
       IN [month |-> ym,
           transactions |-> parseFloat(OrZero(Cell(rows[i], "Total"))),
           revenue |-> sumRowKES(RowOrEmpty(monthlyRevenue, ym)),
           users |-> Num(0),
           volume |-> sumRowKES(RowOrEmpty(monthlyVolume, ym))]]

\* FinancialDashboard.js: the volume is the Total cell of the volume row
monthlyTrendsRaw_FD(mtc, monthlyRevenue, monthlyVolume) ==
  LET rows == TrendRows(mtc)
  IN [i \in 1..Len(rows) |->
       LET ym == Cell(rows[i], "YearMonth")
       IN [month |-> ym,
           transactions |-> parseInt(OrZero(Cell(rows[i], "Total"))),
           revenue |-> sumRowKES(RowOrEmpty(monthlyRevenue, ym)),
           users |-> Num(0),
           volume |-> parseFloat(OrZero(Cell(RowOrEmpty(monthlyVolume, ym), "Total")))]]

\* part_001 (and App.js): users come from Monthly_Active_Users
rawMonthlyTrends_P1(mtc, monthlyRevenue, monthlyActiveUsers, monthlyVolume) ==
  LET rows == TrendRows(mtc)
  IN [i \in 1..Len(rows) |->
       LET ym == Cell(rows[i], "YearMonth")
       IN [month |-> ym,
           transactions |-> parseInt(OrZero(Cell(rows[i], "Total"))),
           revenue |-> sumRowKES(RowOrEmpty(monthlyRevenue, ym)),
           users |-> parseInt(OrZero(Cell(RowOrEmpty(monthlyActiveUsers, ym), "Total"))),
           volume |-> parseFloat(OrZero(Cell(RowOrEmpty(monthlyVolume, ym), "Total")))]]

\* (prev.x > 0) ? ((curr.x - prev.x) / prev.x) * 100 : null
seriesGrowth(curr, prev) ==
  IF Gt(prev, Num(0))
    THEN Mul(Div(Sub(curr, prev), prev), Num(100))
    ELSE Null

\* the loop with every point compared against the first trend point
growthRatesRawAgainstFirst(trends) ==
  LET n == IF Len(trends) = 0 THEN 0 ELSE Len(trends) - 1
  IN [user |->
        [i \in 1..n |-> [month |-> trends[i + 1].month,
                         growth |-> seriesGrowth(trends[i + 1].users, trends[1].users),
                         users |-> trends[i + 1].users]],
      revenue |->
        [i \in 1..n |-> [month |-> trends[i + 1].month,
                         growth |-> seriesGrowth(trends[i + 1].revenue, trends[1].revenue),
                         revenue |-> trends[i + 1].revenue]],
      volume |->
        [i \in 1..n |-> [month |-> trends[i + 1].month,
                         growth |-> seriesGrowth(trends[i + 1].volume, trends[1].volume),
                         volume |-> trends[i + 1].volume]]]

\* the loop for (i = 1; i < trends.length; i++) pushing one point per series
growthRatesRaw(trends) ==
  LET n == IF Len(trends) = 0 THEN 0 ELSE Len(trends) - 1
  IN [user |->
        [i \in 1..n |-> [month |-> trends[i + 1].month,
                         growth |-> seriesGrowth(trends[i + 1].users, trends[i].users),
                         users |-> trends[i + 1].users]],
      revenue |->
        [i \in 1..n |-> [month |-> trends[i + 1].month,
                         growth |-> seriesGrowth(trends[i + 1].revenue, trends[i].revenue),
                         revenue |-> trends[i + 1].revenue]],
      volume |->
        [i \in 1..n |-> [month |-> trends[i + 1].month,
                         growth |-> seriesGrowth(trends[i + 1].volume, trends[i].volume),
                         volume |-> trends[i + 1].volume]]]

\* the transformation with `< 0` for `<= 0`
transformForLogScaleNegativesOnly(dataArray, keys) ==
  [i \in 1..Len(dataArray) |->
     [k \in DOMAIN dataArray[i] |->
        IF k \in keys /\ Le(dataArray[i][k], Num(0)) /\ ~Ge(dataArray[i][k], Num(0))
          THEN Norm(1, 10)
          ELSE dataArray[i][k]]]

\* every listed key whose value is <= 0 becomes 0.1, in a copy of each item
transformForLogScale(dataArray, keys) ==
  [i \in 1..Len(dataArray) |->
     [k \in DOMAIN dataArray[i] |->
        IF k \in keys /\ Le(dataArray[i][k], Num(0))
          THEN Norm(1, 10)
          ELSE dataArray[i][k]]]

TrendKeys == {"transactions", "revenue", "users", "volume"}

preparedGrowthRates(raw) ==
  [user |-> transformForLogScale(raw.user, {"users"}),
   revenue |-> transformForLogScale(raw.revenue, {"revenue"}),
   volume |-> transformForLogScale(raw.volume, {"volume"})]

-----------------------------------------------------------------------------
(* Month-to-date growth by currency (January 2025 against February 2025) *)

\* the amount read from the KES cell when the currency's own cell is absent
AmountOrKES(row, currency) ==
  parseFloat(OrZero(IF Cell(row, currency) = Undefined
                      THEN Cell(row, "KES") ELSE Cell(row, currency)))

\* parseFloat(row[currency] || 0)
Amount(row, currency) == parseFloat(OrZero(Cell(row, currency)))

\* the row with the volume growth taken from a KES current value and a
\* native previous value
mtdRow_P2MixedUnits(currency, mtc, monthlyVolume, monthlyRevenue, currActiveBy, prevActiveBy) ==
  LET currentTx == Amount(RowOrEmpty(mtc, YM_2025_02), currency)
      prevTx == Amount(RowOrEmpty(mtc, YM_2025_01), currency)
      currentVol == Amount(RowOrEmpty(monthlyVolume, YM_2025_02), currency)
      prevVol == Amount(RowOrEmpty(monthlyVolume, YM_2025_01), currency)
      currentVolKES == convertToKES(currentVol, currency, exchangeRates)
      prevVolKES == convertToKES(prevVol, currency, exchangeRates)
      currentRev == Amount(RowOrEmpty(monthlyRevenue, YM_2025_02), currency)
      prevRev == Amount(RowOrEmpty(monthlyRevenue, YM_2025_01), currency)
  IN [currency |-> currency,
      transactionCountGrowth |-> calcGrowth(currentTx, prevTx),
      currentTransactionCount |-> currentTx,
      previousTransactionCount |-> prevTx,
      transactionVolumeGrowth |-> calcGrowth(currentVolKES, prevVol),
      currentTransactionVolume |-> currentVol,
      previousTransactionVolume |-> prevVol,
      volumeKES |-> currentVolKES,
      previousVolumeKES |-> prevVolKES,
      revenueGrowth |-> calcGrowth(currentRev, prevRev),
      currentRevenue |-> currentRev,
      previousRevenue |-> prevRev,
      userGrowth |-> calcGrowth(Num(currActiveBy[currency]), Num(prevActiveBy[currency])),
      currentActiveUsers |-> Num(currActiveBy[currency]),
      previousActiveUsers |-> Num(prevActiveBy[currency])]

\* part_002: the volume growth is taken on the KES-converted volumes
mtdRow_P2(currency, mtc, monthlyVolume, monthlyRevenue, currActiveBy, prevActiveBy) ==
  LET currentTx == Amount(RowOrEmpty(mtc, YM_2025_02), currency)
      prevTx == Amount(RowOrEmpty(mtc, YM_2025_01), currency)
      currentVol == Amount(RowOrEmpty(monthlyVolume, YM_2025_02), currency)
      prevVol == Amount(RowOrEmpty(monthlyVolume, YM_2025_01), currency)
      currentVolKES == convertToKES(currentVol, currency, exchangeRates)
      prevVolKES == convertToKES(prevVol, currency, exchangeRates)
      currentRev == Amount(RowOrEmpty(monthlyRevenue, YM_2025_02), currency)
      prevRev == Amount(RowOrEmpty(monthlyRevenue, YM_2025_01), currency)
  IN [currency |-> currency,
      transactionCountGrowth |-> calcGrowth(currentTx, prevTx),
      currentTransactionCount |-> currentTx,
      previousTransactionCount |-> prevTx,
      transactionVolumeGrowth |-> calcGrowth(currentVolKES, prevVolKES),
      currentTransactionVolume |-> currentVol,
      previousTransactionVolume |-> prevVol,
      volumeKES |-> currentVolKES,
      previousVolumeKES |-> prevVolKES,
      revenueGrowth |-> calcGrowth(currentRev, prevRev),
      currentRevenue |-> currentRev,
      previousRevenue |-> prevRev,
      userGrowth |-> calcGrowth(Num(currActiveBy[currency]), Num(prevActiveBy[currency])),
      currentActiveUsers |-> Num(currActiveBy[currency]),
      previousActiveUsers |-> Num(prevActiveBy[currency])]

\* if (currency !== 'KES') { if (exchangeRates[currency]) v = v * rate }
volToKES_FD(vol, currency) ==
  IF currency # "KES" /\ TruthyNum(RateOf(exchangeRates, currency))
    THEN Mul(vol, exchangeRates[currency])
    ELSE vol

\* FinancialDashboard.js: the volume growth is taken on the native volumes
mtdRow_FD(currency, mtc, monthlyVolume, monthlyRevenue, currActiveBy, prevActiveBy) ==
  LET currentTx == Amount(RowOrEmpty(mtc, YM_2025_02), currency)
      prevTx == Amount(RowOrEmpty(mtc, YM_2025_01), currency)
      currentVol == Amount(RowOrEmpty(monthlyVolume, YM_2025_02), currency)
      prevVol == Amount(RowOrEmpty(monthlyVolume, YM_2025_01), currency)
      currentRev == Amount(RowOrEmpty(monthlyRevenue, YM_2025_02), currency)
      prevRev == Amount(RowOrEmpty(monthlyRevenue, YM_2025_01), currency)
  IN [currency |-> currency,
      transactionCountGrowth |-> calcGrowth(currentTx, prevTx),
      currentTransactionCount |-> currentTx,
      previousTransactionCount |-> prevTx,
      transactionVolumeGrowth |-> calcGrowth(currentVol, prevVol),
      currentTransactionVolume |-> currentVol,
      previousTransactionVolume |-> prevVol,
      volumeKES |-> volToKES_FD(currentVol, currency),
      previousVolumeKES |-> volToKES_FD(prevVol, currency),
      revenueGrowth |-> calcGrowth(currentRev, prevRev),
      currentRevenue |-> currentRev,
      previousRevenue |-> prevRev,
      userGrowth |-> calcGrowth(Num(currActiveBy[currency]), Num(prevActiveBy[currency])),
      currentActiveUsers |-> Num(currActiveBy[currency]),
      previousActiveUsers |-> Num(prevActiveBy[currency])]

\* part_001: the conversions are written out per currency
volToKES_P1(vol, currency) ==
  CASE currency = "UGX" -> Div(vol, Norm(284659, 10000))
    [] currency = "NGN" -> Div(vol, Norm(1159, 100))
    [] currency = "USD" -> Mul(vol, Norm(1293827, 10000))
    [] currency = "CNY" -> Mul(vol, Norm(178, 10))
    [] OTHER -> vol

\* part_001: every growth is the inline form of calcGrowth; previous active
\* users come from the January row of Monthly_Active_Users ({} without it)
mtdRow_P1(currency, mtc, monthlyVolume, monthlyRevenue, currActiveBy, prevActiveBy) ==
  LET currentRevenue == Amount(RowOrEmpty(monthlyRevenue, YM_2025_02), currency)
      previousRevenue == Amount(RowOrEmpty(monthlyRevenue, YM_2025_01), currency)
      currentTransCount == Amount(RowOrEmpty(mtc, YM_2025_02), currency)
      previousTransCount == Amount(RowOrEmpty(mtc, YM_2025_01), currency)
      currentVolume == Amount(RowOrEmpty(monthlyVolume, YM_2025_02), currency)
      previousVolume == Amount(RowOrEmpty(monthlyVolume, YM_2025_01), currency)
      currentActiveUsers == Num(currActiveBy[currency])
      previousActiveUsers ==
        IF currency \in DOMAIN prevActiveBy /\ TruthyNum(prevActiveBy[currency])
          THEN prevActiveBy[currency] ELSE Num(0)
  IN [currency |-> currency,
      revenueGrowth |-> calcGrowth(currentRevenue, previousRevenue),
      transactionCountGrowth |-> calcGrowth(currentTransCount, previousTransCount),
      transactionVolumeGrowth |-> calcGrowth(currentVolume, previousVolume),
      userGrowth |-> calcGrowth(currentActiveUsers, previousActiveUsers),
      currentRevenue |-> currentRevenue,
      previousRevenue |-> previousRevenue,
      currentTransactionCount |-> currentTransCount,
      previousTransactionCount |-> previousTransCount,
      currentTransactionVolume |-> currentVolume,
      previousTransactionVolume |-> previousVolume,
      currentActiveUsers |-> currentActiveUsers,
      previousActiveUsers |-> previousActiveUsers,
      volumeKES |-> volToKES_P1(currentVolume, currency),
      previousVolumeKES |-> volToKES_P1(previousVolume, currency),
      exchangeRate |-> IF currency = "KES" THEN Num(1)
                       ELSE IF TruthyNum(RateOf(exchangeRates, currency))
                         THEN exchangeRates[currency] ELSE Num(1)]

\* part_001: for each active user with a positive 'Transaction Count', KES
\* is incremented, and then each currency whose balance text is not zero
activeUsersByCurrency_P1(activeUsers) ==
  LET counted(user) == /\ Truthy(Cell(user, "Transaction Count"))
                       /\ Gt(parseInt(Cell(user, "Transaction Count")), Num(0))
  IN [cur \in CurrencySet |->
        (IF cur = "KES" THEN Count(activeUsers, counted) ELSE 0)
        + Count(activeUsers,
                LAMBDA user : counted(user) /\ NonZeroBalanceText(user, cur))]

\* part_001: previousActiveUsersByCurrency, {} without a January row
previousActiveUsersByCurrency_P1(monthlyActiveUsers) ==
  LET i == FindIndex(monthlyActiveUsers, "YearMonth", YM_2025_01)
  IN IF i = 0 THEN [c \in {} |-> NaN]
     ELSE [c \in CurrencySet |-> parseInt(OrZero(Cell(monthlyActiveUsers[i], c)))]

-----------------------------------------------------------------------------
(* What one run of loadData computes from the workbook, per revision.  r1, *)
(* r2, r3 are the values of the successive `new Date()` reads.             *)

RequiredSheets ==
  {"Wallet_Balances", "Monthly_Transaction_Count", "Monthly_Revenue",
   "Monthly_Transaction_Volume", "User_Statistics"}

\* userStats rows whose Metric is 'Total Users' and that have no Value
\* cell: item.Value.replace(...) throws a TypeError on them
BadTotalUsersRows(userStats) ==
  {i \in 1..Len(userStats) :
     /\ Cell(userStats[i], "Metric") = TotalUsersKey
     /\ Cell(userStats[i], "Value") = Undefined}

\* part_002 / FinancialDashboard.js: only the first 'Total Users' row is read
totalUsersThrows(userStats) ==
  LET i == FindIndex(userStats, "Metric", TotalUsersKey)
  IN i # 0 /\ i \in BadTotalUsersRows(userStats)

totalUsers(userStats, walletBalances) ==
  LET i == FindIndex(userStats, "Metric", TotalUsersKey)
  IN IF i # 0 THEN parseInt(StripCommas(Cell(userStats[i], "Value")))
     ELSE Num(Len(walletBalances))

\* part_001: forEach over userStats, the last 'Total Users' row wins
totalUsers_P1(userStats) ==
  LET i == FindIndexLast(userStats, "Metric", TotalUsersKey)
  IN IF i # 0 THEN parseInt(StripCommas(Cell(userStats[i], "Value")))
     ELSE Num(0)

\* part_001: a Currency_Summary row without one of the three cells makes
\* item.X.replace(...) throw
currencySummaryThrows(currencySummary) ==
  \E i \in 1..Len(currencySummary) :
    \E col \in {"Transactions", "Total_Volume", "Total_Fees_Original"} :
      Cell(currencySummary[i], col) = Undefined

transactionData(currencySummary) ==
  [i \in 1..Len(currencySummary) |->
     [currency |-> Cell(currencySummary[i], "Currency"),
      transactions |-> parseInt(StripCommas(Cell(currencySummary[i], "Transactions"))),
      volume |-> parseFloat(StripCommas(Cell(currencySummary[i], "Total_Volume"))),
      fees |-> parseFloat(StripCommas(Cell(currencySummary[i], "Total_Fees_Original")))]]

\* whether the synchronous part of loadData throws, and what
Thrown(r, wb) ==
  CASE r = "App" -> "ReferenceError"     \* `workbook` is never declared
    [] r = "P1" ->
         IF \/ BadTotalUsersRows(extractSheetData(wb, "User_Statistics")) # {}
            \/ currencySummaryThrows(extractSheetData(wb, "Currency_Summary"))
           THEN "TypeError" ELSE "none"
    [] OTHER ->
         IF totalUsersThrows(extractSheetData(wb, "User_Statistics"))
           THEN "TypeError" ELSE "none"

Snapshot_P2(wb) ==
  LET walletBalances == extractSheetData(wb, "Wallet_Balances")
      mtc == extractSheetData(wb, "Monthly_Transaction_Count")
      monthlyRevenue == extractSheetData(wb, "Monthly_Revenue")
      monthlyVolume == extractSheetData(wb, "Monthly_Transaction_Volume")
      userStats == extractSheetData(wb, "User_Statistics")
      febStart == MkDate(2025, 1, 1, 0, 0, 0)
      febEnd == MkDate(2025, 1, 28, 23, 59, 59)
      janStart == MkDate(2025, 0, 1, 0, 0, 0)
      janEnd == MkDate(2025, 0, 31, 23, 59, 59)
      currentActiveByCurrency ==
        getActiveUsersByCurrencyInRange(walletBalances, febStart, febEnd)
      previousActiveByCurrency ==
        getActiveUsersByCurrencyInRange(walletBalances, janStart, janEnd)
      distinctActiveUsers == distinctActive(walletBalances, febStart, febEnd)
      distinctActiveUsersPrev == distinctActive(walletBalances, janStart, janEnd)
      febCount == FindIndex(mtc, "YearMonth", YM_2025_02)
      febRev == FindIndex(monthlyRevenue, "YearMonth", YM_2025_02)
      trends == monthlyTrendsRaw_P2(mtc, monthlyRevenue, monthlyVolume)
      febVolumesKES == reduceToKES(RowOrEmpty(monthlyVolume, YM_2025_02), 5)
      janVolumesKES == reduceToKES(RowOrEmpty(monthlyVolume, YM_2025_01), 5)
      febRevenueKES == reduceToKES(RowOrEmpty(monthlyRevenue, YM_2025_02), 5)
      janRevenueKES == reduceToKES(RowOrEmpty(monthlyRevenue, YM_2025_01), 5)
  IN [keyMetrics |->
        [totalRevenue |-> IF febRev = 0 THEN Num(0) ELSE sumRowKES(monthlyRevenue[febRev]),
         totalTransactions |->
           IF febCount = 0 THEN Num(0)
           ELSE parseFloat(OrZero(Cell(mtc[febCount], "Total"))),
         totalUsers |-> totalUsers(userStats, walletBalances),
         activeUsers |-> Num(distinctActiveUsers),
         activePrevUsers |-> Num(distinctActiveUsersPrev),
         overallUserGrowth |->
           calcGrowth(Num(distinctActiveUsers), Num(distinctActiveUsersPrev)),
         overallVolumeGrowth |-> calcGrowth(febVolumesKES, janVolumesKES),
         overallRevenueGrowth |-> calcGrowth(febRevenueKES, janRevenueKES),
         totalVolumeKES |-> febVolumesKES],
      currencyData |-> <<>>,
      monthlyTrends |-> transformForLogScale(trends, TrendKeys),
      mtdGrowth |->
        [k \in 1..5 |-> mtdRow_P2(Currencies[k], mtc, monthlyVolume, monthlyRevenue,
                                  currentActiveByCurrency, previousActiveByCurrency)],
      growthRates |-> preparedGrowthRates(growthRatesRaw(trends)),
      exchangeRates |-> exchangeRates]

Snapshot_FD(wb, r1, r2, r3) ==
  LET walletBalances == extractSheetData(wb, "Wallet_Balances")
      mtc == extractSheetData(wb, "Monthly_Transaction_Count")
      monthlyRevenue == extractSheetData(wb, "Monthly_Revenue")
      monthlyVolume == extractSheetData(wb, "Monthly_Transaction_Volume")
      userStats == extractSheetData(wb, "User_Statistics")
      endDateCurrent == r1
      startDateCurrent == AddDays(r2, -30)
      endDatePrevious == startDateCurrent
      startDatePrevious == AddDays(r3, -60)
      currentActiveByCurrency ==
        getActiveUsersByCurrencyInRange(walletBalances, startDateCurrent, endDateCurrent)
      previousActiveByCurrency ==
        getActiveUsersByCurrencyInRange(walletBalances, startDatePrevious, endDatePrevious)
      distinctActiveUsers == distinctActive(walletBalances, startDateCurrent, endDateCurrent)
      febCount == FindIndex(mtc, "YearMonth", YM_2025_02)
      febRev == FindIndex(monthlyRevenue, "YearMonth", YM_2025_02)
      trends == monthlyTrendsRaw_FD(mtc, monthlyRevenue, monthlyVolume)
  IN [keyMetrics |->
        [totalRevenue |-> IF febRev = 0 THEN Num(0) ELSE sumRowKES(monthlyRevenue[febRev]),
         totalTransactions |->
           IF febCount = 0 THEN Num(0)
           ELSE parseInt(OrZero(Cell(mtc[febCount], "Total"))),
         totalUsers |-> totalUsers(userStats, walletBalances),
         activeUsers |-> Num(distinctActiveUsers)],
      currencyData |-> <<>>,
      monthlyTrends |-> transformForLogScale(trends, TrendKeys),
      mtdGrowth |->
        [k \in 1..5 |-> mtdRow_FD(Currencies[k], mtc, monthlyVolume, monthlyRevenue,
                                  currentActiveByCurrency, previousActiveByCurrency)],
      growthRates |-> preparedGrowthRates(growthRatesRaw(trends)),
      exchangeRates |-> exchangeRates]

Snapshot_P1(wb, r1, r2) ==
  LET userStats == extractSheetData(wb, "User_Statistics")
      walletBalances == extractSheetData(wb, "Wallet_Balances")
      currencySummary == extractSheetData(wb, "Currency_Summary")
      mtc == extractSheetData(wb, "Monthly_Transaction_Count")
      monthlyRevenue == extractSheetData(wb, "Monthly_Revenue")
      monthlyActiveUsers == extractSheetData(wb, "Monthly_Active_Users")
      monthlyVolume == extractSheetData(wb, "Monthly_Transaction_Volume")
      \* thirtyDaysAgo.setDate(now.getDate() - 30), both reads on one day
      thirtyDaysAgo == AddDays(r2, -30)
      activeUsers == activeUsersSince(walletBalances, thirtyDaysAgo)
      febTransactions == FindIndex(mtc, "YearMonth", YM_2025_02)
      febData == FindIndex(monthlyRevenue, "YearMonth", YM_2025_02)
      trends == rawMonthlyTrends_P1(mtc, monthlyRevenue, monthlyActiveUsers, monthlyVolume)
  IN [keyMetrics |->
        [totalRevenue |->
           IF febData = 0 THEN Num(0) ELSE sumFebDataKES(monthlyRevenue[febData]),
         totalTransactions |->
           IF febTransactions # 0 /\ Truthy(Cell(mtc[febTransactions], "Total"))
             THEN parseInt(Cell(mtc[febTransactions], "Total"))
             ELSE Num(0),
         totalUsers |-> totalUsers_P1(userStats),
         activeUsers |-> Num(Len(activeUsers))],
      currencyData |-> transactionData(currencySummary),
      monthlyTrends |-> transformForLogScale(trends, TrendKeys),
      mtdGrowth |->
        [k \in 1..5 |-> mtdRow_P1(Currencies[k], mtc, monthlyVolume, monthlyRevenue,
                                  activeUsersByCurrency_P1(activeUsers),
                                  previousActiveUsersByCurrency_P1(monthlyActiveUsers))],
      growthRates |-> preparedGrowthRates(growthRatesRaw(trends)),
      exchangeRates |-> exchangeRates]

\* the trend points before transformForLogScale, per revision
RawTrends(r, wb) ==
  LET mtc == extractSheetData(wb, "Monthly_Transaction_Count")
      monthlyRevenue == extractSheetData(wb, "Monthly_Revenue")
      monthlyVolume == extractSheetData(wb, "Monthly_Transaction_Volume")
  IN CASE r = "P2" -> monthlyTrendsRaw_P2(mtc, monthlyRevenue, monthlyVolume)
       [] r = "FD" -> monthlyTrendsRaw_FD(mtc, monthlyRevenue, monthlyVolume)
       [] r = "P1" ->
            rawMonthlyTrends_P1(mtc, monthlyRevenue,
                                extractSheetData(wb, "Monthly_Active_Users"),
                                monthlyVolume)

\* the argument of setData for a run that does not throw
Snapshot(r, wb, r1, r2, r3) ==
  CASE r = "P2" -> Snapshot_P2(wb)
    [] r = "FD" -> Snapshot_FD(wb, r1, r2, r3)
    [] r = "P1" -> Snapshot_P1(wb, r1, r2)

-----------------------------------------------------------------------------
(* The React state of the component *)

NoRates == [c \in {} |-> NaN]

\* useState(...) initial value of data
InitialData(r) ==
  [keyMetrics |->
     IF r = "P2"
       THEN [totalRevenue |-> Num(0), totalTransactions |-> Num(0),
             totalUsers |-> Num(0), activeUsers |-> Num(0),
             activePrevUsers |-> Num(0), overallUserGrowth |-> Num(0),
             overallVolumeGrowth |-> Num(0), overallRevenueGrowth |-> Num(0)]
       ELSE [totalRevenue |-> Num(0), totalTransactions |-> Num(0),
             totalUsers |-> Num(0), activeUsers |-> Num(0)],
   currencyData |-> <<>>,
   monthlyTrends |-> <<>>,
   mtdGrowth |-> <<>>,
   growthRates |-> [user |-> <<>>, revenue |-> <<>>, volume |-> <<>>],
   exchangeRates |-> NoRates]

\* App.js has no error state: its catch only logs and clears loading
HasErrorState(r) == r # "App"

\* setData as a merge that keeps the key metrics of a state already published
setDataKeepsKeyMetrics(old, value) ==
  IF old.exchangeRates = NoRates THEN value
  ELSE [value EXCEPT !.keyMetrics = old.keyMetrics]

\* setData(value): the state is replaced by the value, nothing of the old
\* state is kept
setData(old, value) == value

\* no second invocation
NoSecond == [pc |-> "none", workbook |-> [s \in {} |-> <<>>], fetchOk |-> FALSE]

NoCall == [fn |-> "none", x |-> 0, y |-> 0, cur |-> "", rates |-> NoRates]
NoRet == [kind |-> "none", v |-> Num(0)]

-----------------------------------------------------------------------------
(* loadData, from the effect that starts it to its last setLoading(false) *)

ClockMax == Now0 + MaxTicks

\* the component is constructed and loadData has not started
Constructed ==
  /\ pc = "idle"
  /\ loading = TRUE
  /\ error = "null"
  /\ data = InitialData(rev)
  /\ setDataCalls = 0

\* a catch block that records the error and leaves the loading flag alone
CatchKeepsLoading(err) ==
  /\ logged' = err
  /\ error' = IF HasErrorState(rev) THEN err ELSE error
  /\ pc' = "done"
  /\ UNCHANGED <<rev, workbook, fetchOk, now, loading, data, setDataCalls, lastRun,
                 call, ret, second>>

\* the catch block: console.error(..., err), setError(err) where there is
\* an error state, then setLoading(false); data is not touched
Catch(err) ==
  /\ logged' = err
  /\ error' = IF HasErrorState(rev) THEN err ELSE error
  /\ loading' = FALSE
  /\ pc' = "done"
  /\ UNCHANGED <<rev, workbook, fetchOk, now, data, setDataCalls, lastRun, call, ret,
                 second>>

\* useEffect runs loadData up to its first await: setLoading(true),
\* setError(null), fetch(...)
Start ==
  /\ pc = "idle"
  /\ loading' = TRUE
  /\ error' = "null"
  /\ pc' = "fetch"
  /\ UNCHANGED <<rev, workbook, fetchOk, now, data, setDataCalls, lastRun, call, ret,
                 logged, second>>

\* the fetch promise rejects (no network)
FetchReject ==
  /\ pc = "fetch"
  /\ Catch("NetworkError")

\* the response arrives with response.ok false: loadData throws
FetchNotOk ==
  /\ pc = "fetch"
  /\ ~fetchOk
  /\ Catch("Error: Failed to fetch Excel file")

\* the response arrives with response.ok true: await response.arrayBuffer()
FetchOk ==
  /\ pc = "fetch"
  /\ fetchOk
  /\ pc' = "buffer"
  /\ UNCHANGED <<rev, workbook, fetchOk, now, loading, error, data,
                 setDataCalls, lastRun, call, ret, logged, second>>

\* reading the body fails
BufferReject ==
  /\ pc = "buffer"
  /\ Catch("NetworkError")

\* the body is read and the synchronous rest of loadData throws
ComputeThrow ==
  /\ pc = "buffer"
  /\ Thrown(rev, workbook) # "none"
  /\ Catch(Thrown(rev, workbook))

\* the body is read and the synchronous rest of loadData runs to its end:
\* XLSX.read, the five (or seven) extractSheetData, every metric, setData
\* and setLoading(false).  The rolling-window revisions read the clock up
\* to three times on the way.
ComputeOk ==
  /\ pc = "buffer"
  /\ Thrown(rev, workbook) = "none"
  /\ \E r1 \in now..ClockMax :
       \E r2 \in r1..ClockMax :
         \E r3 \in r2..ClockMax :
           /\ rev = "P2" => (r1 = now /\ r2 = now /\ r3 = now)
           /\ rev = "P1" => (r1 = now /\ r3 = r2)
           /\ data' = setData(data, Snapshot(rev, workbook, r1, r2, r3))
           /\ now' = r3
  /\ setDataCalls' = setDataCalls + 1
  /\ loading' = FALSE
  /\ pc' = "done"
  /\ UNCHANGED <<rev, workbook, fetchOk, error, lastRun, call, ret, logged, second>>

\* time passes
Tick ==
  /\ now < ClockMax
  /\ now' = now + 1
  /\ UNCHANGED <<rev, workbook, fetchOk, pc, loading, error, data,
                 setDataCalls, lastRun, call, ret, logged, second>>

\* the page is reloaded after a finished run: the component is constructed
\* anew over the same served file and the console starts empty; lastRun
\* remembers what the finished run published
Reload ==
  /\ pc = "done"
  /\ lastRun' = [kind |-> IF setDataCalls > 0 THEN "data" ELSE "error",
                 data |-> data]
  /\ pc' = "idle"
  /\ loading' = TRUE
  /\ error' = "null"
  /\ data' = InitialData(rev)
  /\ setDataCalls' = 0
  /\ logged' = "none"
  /\ UNCHANGED <<rev, workbook, fetchOk, now, call, ret, second>>

\* one mount of the component
Next ==
  \/ Start
  \/ FetchReject
  \/ FetchNotOk
  \/ FetchOk
  \/ BufferReject
  \/ ComputeThrow
  \/ ComputeOk

\* mounts that follow one another while time passes
NextReload ==
  \/ Next
  \/ Tick
  \/ Reload

\* A second invocation of loadData while the first is under way (the effect
\* runs again on a remount).  It has its own response, workbook and locals
\* and shares the state setters with the first.
SecondCatch(err) ==
  /\ logged' = err
  /\ error' = IF HasErrorState(rev) THEN err ELSE error
  /\ loading' = FALSE
  /\ second' = [second EXCEPT !.pc = "done"]
  /\ UNCHANGED <<rev, workbook, fetchOk, now, pc, data, setDataCalls, lastRun,
                 call, ret>>

SecondStart ==
  /\ pc # "idle"
  /\ second.pc = "idle"
  /\ loading' = TRUE
  /\ error' = "null"
  /\ second' = [second EXCEPT !.pc = "fetch"]
  /\ UNCHANGED <<rev, workbook, fetchOk, now, pc, data, setDataCalls, lastRun,
                 call, ret, logged>>

SecondFetchReject ==
  /\ second.pc = "fetch"
  /\ SecondCatch("NetworkError")

SecondFetchNotOk ==
  /\ second.pc = "fetch"
  /\ ~second.fetchOk
  /\ SecondCatch("Error: Failed to fetch Excel file")

SecondFetchOk ==
  /\ second.pc = "fetch"
  /\ second.fetchOk
  /\ second' = [second EXCEPT !.pc = "buffer"]
  /\ UNCHANGED <<rev, workbook, fetchOk, now, pc, loading, error, data,
                 setDataCalls, lastRun, call, ret, logged>>

SecondBufferReject ==
  /\ second.pc = "buffer"
  /\ SecondCatch("NetworkError")

SecondComputeThrow ==
  /\ second.pc = "buffer"
  /\ Thrown(rev, second.workbook) # "none"
  /\ SecondCatch(Thrown(rev, second.workbook))

\* the synchronous rest of either invocation runs to its end over the
\* invocation's own workbook: setData with its snapshot, setLoading(false)
ComputeOkOfEither ==
  \E i \in {1, 2} :
    LET wb == IF i = 1 THEN workbook ELSE second.workbook
        at == IF i = 1 THEN pc ELSE second.pc
    IN /\ at = "buffer"
       /\ Thrown(rev, wb) = "none"
       /\ \E r1 \in now..ClockMax :
            \E r2 \in r1..ClockMax :
              \E r3 \in r2..ClockMax :
                /\ rev = "P2" => (r1 = now /\ r2 = now /\ r3 = now)
                /\ rev = "P1" => (r1 = now /\ r3 = r2)
                /\ data' = setData(data, Snapshot(rev, wb, r1, r2, r3))
                /\ now' = r3
       /\ setDataCalls' = setDataCalls + 1
       /\ loading' = FALSE
       /\ IF i = 1 THEN pc' = "done" /\ UNCHANGED second
          ELSE second' = [second EXCEPT !.pc = "done"] /\ UNCHANGED pc
       /\ UNCHANGED <<rev, workbook, fetchOk, error, lastRun, call, ret, logged>>

\* two invocations of loadData whose awaits interleave
NextConcurrent ==
  \/ Start
  \/ FetchReject
  \/ FetchNotOk
  \/ FetchOk
  \/ BufferReject
  \/ ComputeThrow
  \/ SecondStart
  \/ SecondFetchReject
  \/ SecondFetchNotOk
  \/ SecondFetchOk
  \/ SecondBufferReject
  \/ SecondComputeThrow
  \/ ComputeOkOfEither

Revisions == {"App", "P1", "FD", "P2"}

\* the state after construction, over the served workbooks WB
InitOver(WB) ==
  /\ rev \in Revisions
  /\ workbook \in WB
  /\ fetchOk \in BOOLEAN
  /\ now = Now0
  /\ Constructed
  /\ lastRun = [kind |-> "none", data |-> InitialData(rev)]
  /\ call = NoCall
  /\ ret = NoRet
  /\ logged = "none"
  /\ second = NoSecond

-----------------------------------------------------------------------------
(* The served workbooks the specifications range over *)

\* a row from a column -> cell map, without the cells that are undefined
MkRow(cells) == [c \in {k \in DOMAIN cells : cells[k] # Undefined} |-> cells[c]]

ZeroText == <<"0", ".", "0", "0">>
Money(n) == Dec(n) \o <<".", "0", "0">>

\* a wallet row: last transaction, 'Transaction Count', five balances
UserRow(lastTx, txCount, kes, ugx, ngn, usd, cny) ==
  MkRow(("Last Transaction" :> lastTx) @@ ("Transaction Count" :> txCount)
        @@ ("KES" :> kes) @@ ("UGX" :> ugx) @@ ("NGN" :> ngn)
        @@ ("USD" :> usd) @@ ("CNY" :> cny))

\* last-transaction cells around the edges of the rolling windows
LastTxCells ==
  { Undefined,
    <<"n", "/", "a">>,
    DateCell(AddDays(Now0, -60)),
    DateCell(AddDays(Now0, -30)),
    DateCell(AddDays(Now0, -30) + 1),
    DateCell(Now0),
    DateCell(AddDays(Now0, 1)) }

\* users that differ in their last transaction only; they hold KES
UsersByTime ==
  { UserRow(t, <<"3">>, Money(10), ZeroText, ZeroText, ZeroText, ZeroText) :
      t \in LastTxCells }

\* users active yesterday that differ in what they hold
UsersByBalance ==
  LET t == DateCell(AddDays(Now0, -1))
  IN { UserRow(t, <<"3">>, ZeroText, ZeroText, Money(5), ZeroText, ZeroText),
       UserRow(t, Undefined, ZeroText, ZeroText, Money(5), ZeroText, ZeroText),
       UserRow(t, <<"3">>, ZeroText \o <<" ", "K", "E", "S">>, Undefined,
               Money(5) \o <<" ", "N", "G", "N">>, Undefined, Undefined),
       UserRow(t, <<"3">>, Money(7), ZeroText, Money(5), ZeroText, ZeroText),
       UserRow(t, <<"0">>, ZeroText, ZeroText, ZeroText, ZeroText, ZeroText) }

UserRows == UsersByTime \cup UsersByBalance

RECURSIVE SeqsUpTo(_, _)
SeqsUpTo(S, n) ==
  IF n = 0 THEN {<<>>}
  ELSE LET shorter == SeqsUpTo(S, n - 1)
       IN shorter \cup {Append(q, x) : q \in {t \in shorter : Len(t) = n - 1}, x \in S}

Wallets == SeqsUpTo(UserRows, MaxUsers)

\* a period row of one of the monthly sheets
PeriodRow(ym, total, kes, ugx, ngn, usd, cny) ==
  MkRow(("YearMonth" :> ym) @@ ("Total" :> total)
        @@ ("KES" :> kes) @@ ("UGX" :> ugx) @@ ("NGN" :> ngn)
        @@ ("USD" :> usd) @@ ("CNY" :> cny))

MetricRow(metric, value) == MkRow(("Metric" :> metric) @@ ("Value" :> value))

SummaryRow(cur, transactions, volume, fees) ==
  MkRow(("Currency" :> cur) @@ ("Transactions" :> transactions)
        @@ ("Total_Volume" :> volume) @@ ("Total_Fees_Original" :> fees))

BaseCount ==
  << PeriodRow(YM_2025_01, Dec(40), Dec(30), Undefined, Dec(10), Undefined, Undefined),
     PeriodRow(YM_2025_02, Dec(60), Dec(45), Undefined, Dec(15), Undefined, Undefined),
     PeriodRow(TotalKey, Dec(100), Dec(75), Undefined, Dec(25), Undefined, Undefined) >>

BaseRevenue ==
  << PeriodRow(YM_2025_01, Undefined, Dec(1000000), Undefined, Undefined, Undefined, Undefined),
     PeriodRow(YM_2025_02, Undefined, Dec(1200000), Undefined, Undefined, Dec(1000), Undefined) >>

BaseVolume ==
  << PeriodRow(YM_2025_01, Dec(5000), Dec(5000), Undefined, Undefined, Undefined, Undefined),
     PeriodRow(YM_2025_02, Dec(8000), Dec(6000), Undefined, Undefined, Undefined, Dec(100)) >>

BaseActiveUsers ==
  << PeriodRow(YM_2025_01, Dec(2), Dec(2), Undefined, Dec(1), Undefined, Undefined),
     PeriodRow(YM_2025_02, Dec(3), Dec(2), Undefined, Dec(2), Undefined, Undefined) >>

BaseUserStats ==
  << MetricRow(TotalUsersKey, <<"1", ",", "2", "3", "4">>) >>

BaseSummary ==
  << SummaryRow(<<"K", "E", "S">>, <<"1", ",", "0", "0", "0">>, Money(11000), Money(120)) >>

BaseWallet ==
  << UserRow(DateCell(AddDays(Now0, -1)), <<"3">>, Money(10), ZeroText, Money(5),
             ZeroText, ZeroText) >>

BaseWorkbook ==
  ("Wallet_Balances" :> BaseWallet)
  @@ ("Monthly_Transaction_Count" :> BaseCount)
  @@ ("Monthly_Revenue" :> BaseRevenue)
  @@ ("Monthly_Transaction_Volume" :> BaseVolume)
  @@ ("User_Statistics" :> BaseUserStats)
  @@ ("Currency_Summary" :> BaseSummary)
  @@ ("Monthly_Active_Users" :> BaseActiveUsers)

\* wb with the sheet replaced
WithSheet(wb, name, rows) == [n \in DOMAIN wb |-> IF n = name THEN rows ELSE wb[n]]

\* wb without the sheets in names
WithoutSheets(wb, names) == [n \in (DOMAIN wb) \ names |-> wb[n]]

\* the sheets that have one column per currency
PerCurrencySheets ==
  {"Wallet_Balances", "Monthly_Transaction_Count", "Monthly_Revenue",
   "Monthly_Transaction_Volume", "Monthly_Active_Users"}

\* wb with the cell of column cur replaced by cell (removed when Undefined)
\* in every row of the per-currency sheets
WithCurrencyCells(wb, cur, cell) ==
  [n \in DOMAIN wb |->
     IF n \notin PerCurrencySheets THEN wb[n]
     ELSE [i \in 1..Len(wb[n]) |->
             [c \in ((DOMAIN wb[n][i]) \ {cur})
                      \cup (IF cell = Undefined THEN {} ELSE {cur}) |->
                IF c = cur THEN cell ELSE wb[n][i][c]]]]

\* the cells a currency's column is given in the changed workbooks: none,
\* zero, and an amount worth a whole number of KES
ChangedCells(cur) ==
  { Undefined, Dec(0),
    Dec(CASE cur = "UGX" -> 284659
          [] cur = "NGN" -> 1159
          [] cur = "USD" -> 10000
          [] OTHER -> 7) }

\* workbooks that differ in the wallet sheet
UserWorkbooks == {WithSheet(BaseWorkbook, "Wallet_Balances", w) : w \in Wallets}

InitUsers == InitOver(UserWorkbooks)

SpecUsers == InitUsers /\ [][Next]_vars

\* the cells of a revenue row: KES, UGX, NGN, USD, CNY
RevenueCells ==
  { <<Dec(1000000), Undefined, Undefined, Undefined, Undefined>>,
    <<Dec(1200000), Undefined, Undefined, Dec(1000), Undefined>>,
    <<Undefined, Undefined, Undefined, Undefined, Undefined>>,
    <<Dec(0), Undefined, Undefined, Undefined, Undefined>>,
    <<Undefined, Dec(284659), Dec(1159), Undefined, Dec(10)>>,
    <<Dec(500), Dec(284659), Dec(1159), Dec(10000), Dec(5)>> }

RevenueRow(ym, c) == PeriodRow(ym, Undefined, c[1], c[2], c[3], c[4], c[5])

RevenueSheets ==
  { <<RevenueRow(YM_2025_01, a), RevenueRow(YM_2025_02, b)>> :
      a \in RevenueCells, b \in RevenueCells }
  \cup { <<RevenueRow(YM_2025_02, b)>> : b \in RevenueCells }

\* count sheets: the base one, one that starts in December 2024, one whose
\* rows are not in calendar order, one with two rows for February, and one
\* with the 'Total' row only
CountSheets ==
  { BaseCount,
    << PeriodRow(YM_2024_12, Dec(20), Dec(20), Undefined, Undefined, Undefined, Undefined) >>
      \o BaseCount,
    << BaseCount[2], BaseCount[1], BaseCount[3] >>,
    << BaseCount[1], BaseCount[2],
       PeriodRow(YM_2025_02, Dec(5), Dec(5), Undefined, Undefined, Undefined, Undefined),
       BaseCount[3] >>,
    << BaseCount[3] >> }

\* volume sheets: the base one, one without January cells, and one with CNY
\* volume in both months
VolumeSheets ==
  { BaseVolume,
    << PeriodRow(YM_2025_01, Undefined, Undefined, Undefined, Undefined, Undefined, Undefined),
       PeriodRow(YM_2025_02, Dec(8000), Dec(6000), Undefined, Undefined, Undefined, Dec(100)) >>,
    << PeriodRow(YM_2025_01, Dec(5900), Dec(5000), Undefined, Undefined, Undefined, Dec(50)),
       PeriodRow(YM_2025_02, Dec(8000), Dec(6000), Undefined, Undefined, Undefined, Dec(100)) >> }

\* workbooks that differ in the monthly sheets
TrendWorkbooks ==
  { WithSheet(WithSheet(WithSheet(BaseWorkbook,
        "Monthly_Transaction_Count", c), "Monthly_Revenue", r),
        "Monthly_Transaction_Volume", v) :
      c \in CountSheets, r \in RevenueSheets, v \in VolumeSheets }

InitTrends == InitOver(TrendWorkbooks)

SpecTrends == InitTrends /\ [][Next]_vars

UserStatsSheets ==
  { BaseUserStats,
    << MetricRow(TotalUsersKey, Undefined) >>,
    << MetricRow(<<"A", "c", "t", "i", "v", "e">>, Dec(7)) >> }

\* the nine sheets App.js reads
AppSheets ==
  {"Revenue_Summary", "Currency_Summary", "User_Statistics", "MTD_Summary",
   "Wallet_Balances", "Monthly_Transaction_Count", "Monthly_Revenue",
   "Monthly_Active_Users", "Monthly_Transaction_Volume"}

\* the base workbook with the two summary sheets only App.js reads
AppWorkbook ==
  BaseWorkbook
  @@ ("Revenue_Summary" :>
        << MetricRow(<<"T", "o", "t", "a", "l", " ", "S", "u", "c", "c", "e", "s", "s",
                       "f", "u", "l", " ", "T", "r", "a", "n", "s", "a", "c", "t", "i",
                       "o", "n", "s">>, Dec(60)) >>)
  @@ ("MTD_Summary" :> << MkRow("Currency" :> <<"K", "E", "S">>) >>)

\* workbooks that lack some of the sheets, or differ in User_Statistics, and
\* one that holds every sheet of every revision
LoadWorkbooks ==
  { WithoutSheets(BaseWorkbook, S) : S \in SUBSET RequiredSheets }
  \cup { WithSheet(BaseWorkbook, "User_Statistics", u) : u \in UserStatsSheets }
  \cup { AppWorkbook }

InitLoad == InitOver(LoadWorkbooks)

SpecLoad == InitLoad /\ [][Next]_vars

\* the effect runs after the mount, every awaited promise settles and its
\* continuation is run by the event loop: a step of loadData that can be
\* taken is eventually taken
SpecLoadFair == InitLoad /\ [][Next]_vars /\ WF_vars(Next)

\* workbooks whose wallet holds at most one user, for reloads over time
ReloadWorkbooks ==
  { WithSheet(BaseWorkbook, "Wallet_Balances", w) : w \in SeqsUpTo(UsersByTime, 1) }

InitReload == InitOver(ReloadWorkbooks)

SpecReload == InitReload /\ [][NextReload]_vars

\* what the two fetches of two concurrent invocations may be answered with:
\* the base workbook, one with another February, one whose 'Total Users'
\* row has no Value
ConcurrentWorkbooks ==
  { BaseWorkbook,
    WithSheet(BaseWorkbook, "Monthly_Transaction_Count",
      << BaseCount[1],
         PeriodRow(YM_2025_02, Dec(5), Dec(5), Undefined, Undefined, Undefined, Undefined) >>),
    WithSheet(BaseWorkbook, "User_Statistics", << MetricRow(TotalUsersKey, Undefined) >>) }

InitConcurrent ==
  /\ rev \in Revisions
  /\ workbook \in ConcurrentWorkbooks
  /\ fetchOk \in BOOLEAN
  /\ now = Now0
  /\ Constructed
  /\ lastRun = [kind |-> "none", data |-> InitialData(rev)]
  /\ call = NoCall
  /\ ret = NoRet
  /\ logged = "none"
  /\ \E wb \in ConcurrentWorkbooks : \E ok \in BOOLEAN :
       second = [pc |-> "idle", workbook |-> wb, fetchOk |-> ok]

SpecConcurrent == InitConcurrent /\ [][NextConcurrent]_vars

\* last-transaction instants at the edges of January and February 2025:
\* the last tick of December, the first instant of January, 23:59:59 of
\* 31 January and the tick after it, and the same around the end of February
MonthEdgeInstants ==
  { MkDate(2025, 0, 1, 0, 0, 0) - 1,
    MkDate(2025, 0, 1, 0, 0, 0),
    MkDate(2025, 0, 31, 23, 59, 59),
    MkDate(2025, 0, 31, 23, 59, 59) + 1,
    MkDate(2025, 1, 1, 0, 0, 0),
    MkDate(2025, 1, 28, 23, 59, 59),
    MkDate(2025, 1, 28, 23, 59, 59) + 1,
    MkDate(2025, 2, 1, 0, 0, 0) }

\* users that hold KES and differ in their last transaction
UsersByMonth ==
  { UserRow(DateCell(t), <<"3">>, Money(10), ZeroText, ZeroText, ZeroText, ZeroText) :
      t \in MonthEdgeInstants }

MonthWorkbooks ==
  { WithSheet(BaseWorkbook, "Wallet_Balances", w) : w \in SeqsUpTo(UsersByMonth, MaxUsers) }

InitMonths == InitOver(MonthWorkbooks)

SpecMonths == InitMonths /\ [][Next]_vars

\* workbooks for the month-to-date table: they differ in the count sheet,
\* in the volume sheet and in what the one user of the wallet holds
MtdWorkbooks ==
  { WithSheet(WithSheet(WithSheet(BaseWorkbook,
        "Monthly_Transaction_Count", c), "Monthly_Transaction_Volume", v),
        "Wallet_Balances", w) :
      c \in {BaseCount, <<BaseCount[1], BaseCount[3]>>},
      v \in VolumeSheets,
      w \in SeqsUpTo(UsersByBalance, 1) }

InitMtd == InitOver(MtdWorkbooks)

SpecMtd == InitMtd /\ [][Next]_vars

\* the native amount of a currency that is worth a whole number of KES
VolumeUnit(cur) ==
  CASE cur = "UGX" -> 284659
    [] cur = "NGN" -> 1159
    [] cur = "USD" -> 10000
    [] cur = "CNY" -> 5
    [] OTHER -> 1

\* the volume cells of one currency in January and in February: absent,
\* zero, or a multiple of the unit
VolumeCellPairs(cur) ==
  { <<a, b>> :
      a \in {Undefined, Dec(0), Dec(VolumeUnit(cur)), Dec(2 * VolumeUnit(cur))},
      b \in {Undefined, Dec(0), Dec(VolumeUnit(cur)), Dec(3 * VolumeUnit(cur))} }

\* a volume sheet that holds the cells of one currency only
VolumeSheetOf(cur, pair) ==
  << MkRow(("YearMonth" :> YM_2025_01) @@ (cur :> pair[1])),
     MkRow(("YearMonth" :> YM_2025_02) @@ (cur :> pair[2])) >>

\* workbooks that differ in the volume of one currency
VolumeWorkbooks ==
  UNION { { WithSheet(BaseWorkbook, "Monthly_Transaction_Volume",
                      VolumeSheetOf(cur, pair)) : pair \in VolumeCellPairs(cur) } :
          cur \in CurrencySet }

InitVolumes == InitOver(VolumeWorkbooks)

SpecVolumes == InitVolumes /\ [][Next]_vars

-----------------------------------------------------------------------------
(* Calls of the pure helpers on enumerated arguments *)

\* the growth policy's documented cases, as (current, previous)
GrowthSamples == {<<50, 0>>, <<150, 100>>, <<50, 100>>, <<0, 0>>}

GrowthArgs == ((0..MaxAmount) \X (0..MaxAmount)) \cup GrowthSamples

\* rate tables: the program's, one that also lists the base currency, and
\* one whose USD entry is 0
RateTables ==
  { exchangeRates,
    [c \in {"KES", "UGX", "NGN", "USD", "CNY"} |->
       IF c = "KES" THEN Num(2) ELSE exchangeRates[c]],
    [c \in {"UGX", "NGN", "USD", "CNY"} |->
       IF c = "USD" THEN Num(0) ELSE exchangeRates[c]] }

CurrencyArgs == {"", "KES", "UGX", "NGN", "USD", "CNY", "XYZ"}

HelperCalls ==
  { [fn |-> "calcGrowth", x |-> a[1], y |-> a[2], cur |-> "", rates |-> NoRates] :
      a \in GrowthArgs }
  \cup
  { [fn |-> "convertToKES", x |-> a, y |-> 0, cur |-> c, rates |-> r] :
      a \in 0..MaxAmount, c \in CurrencyArgs, r \in RateTables }

InitHelpers ==
  /\ rev = "P2"
  /\ workbook = [s \in {} |-> <<>>]
  /\ fetchOk = TRUE
  /\ now = 0
  /\ Constructed
  /\ lastRun = [kind |-> "none", data |-> InitialData(rev)]
  /\ call \in HelperCalls
  /\ ret = NoRet
  /\ logged = "none"
  /\ second = NoSecond

\* the helper runs to its return statement; neither helper has a throw
Return ==
  /\ call.fn # "none"
  /\ ret.kind = "none"
  /\ ret' = [kind |-> "value",
             v |-> IF call.fn = "calcGrowth"
                     THEN calcGrowth(Num(call.x), Num(call.y))
                     ELSE convertToKES(Num(call.x), call.cur, call.rates)]
  /\ UNCHANGED <<call, compVars>>

NextHelpers == Return

SpecHelpers == InitHelpers /\ [][NextHelpers]_vars

\* growth points as the growth loop pushes them: a month, a growth that may
\* be null or negative, and the revenue of the month
GrowthPoints ==
  { [month |-> m, growth |-> g, revenue |-> v] :
      m \in {YM_2025_01, YM_2025_02},
      g \in {Null, Num(-50), Num(0), Num(25)},
      v \in {Num(-1), Num(0), Num(5), NaN} }

\* the key lists: the one of the revenue series, and one with a key the
\* items do not have
KeyLists == { {"revenue"}, {"revenue", "users"} }

TransformCalls ==
  { [fn |-> "transformForLogScale", x |-> a, y |-> 0, cur |-> "",
     rates |-> NoRates, keys |-> ks] :
      a \in SeqsUpTo(GrowthPoints, 2), ks \in KeyLists }

InitTransform ==
  /\ rev = "P2"
  /\ workbook = [s \in {} |-> <<>>]
  /\ fetchOk = TRUE
  /\ now = 0
  /\ Constructed
  /\ lastRun = [kind |-> "none", data |-> InitialData(rev)]
  /\ call \in TransformCalls
  /\ ret = NoRet
  /\ logged = "none"
  /\ second = NoSecond

\* transformForLogScale runs to its return statement: the array it was
\* given is the caller's and stays as it is
ReturnTransform ==
  /\ call.fn = "transformForLogScale"
  /\ ret.kind = "none"
  /\ ret' = [kind |-> "value", v |-> transformForLogScale(call.x, call.keys)]
  /\ UNCHANGED <<call, compVars>>

NextTransform == ReturnTransform

SpecTransform == InitTransform /\ [][NextTransform]_vars

-----------------------------------------------------------------------------
(* Claims about the pure helpers *)

Returned(f) == call.fn = f /\ ret.kind # "none"

\* C1: calcGrowth(current, previous), for non-negative arguments, returns
\* ((current - previous) / previous) * 100 when previous > 0, 100 when
\* previous = 0 and current > 0, and 0 when both are 0; (50, 0) gives 100,
\* (150, 100) gives 50, (50, 100) gives -50 and (0, 0) gives 0.
C1_GrowthPolicy ==
  Returned("calcGrowth") =>
    /\ ret.kind = "value"
    /\ IsNum(ret.v)
    /\ call.y > 0 => ret.v[1] * call.y = (call.x - call.y) * 100 * ret.v[2]
    /\ (call.y = 0 /\ call.x > 0) => ret.v = Num(100)
    /\ (call.y = 0 /\ call.x = 0) => ret.v = Num(0)
    /\ (call.x = 50 /\ call.y = 0) => ret.v = Num(100)
    /\ (call.x = 150 /\ call.y = 100) => ret.v = Num(50)
    /\ (call.x = 50 /\ call.y = 100) => ret.v = Num(-50)

C1_Witness ==
  /\ Returned("calcGrowth")
  /\ call.x = 150 /\ call.y = 100
  /\ ret.v = Num(50)

\* C3 (as claimed): converting an amount whose currency code has no entry in
\* the rate table is an error outcome: convertToKES never returns a value
\* for such a currency.
C3_UnknownCurrencyIsError ==
  (Returned("convertToKES") /\ call.cur \notin {"", "KES"}
     /\ call.cur \notin DOMAIN call.rates)
    => ret.kind = "throw"

\* C5: convertToKES(amount, 'KES', rates) returns amount unchanged for every
\* amount and every rate table, and converting any returned (base) amount
\* again as base yields the same value.
C5_BaseIsIdentity ==
  Returned("convertToKES") =>
    /\ call.cur = "KES" => ret.v = Num(call.x)
    /\ convertToKES(ret.v, "KES", call.rates) = ret.v

C5_Witness ==
  /\ Returned("convertToKES")
  /\ call.cur = "KES"
  /\ "KES" \in DOMAIN call.rates
  /\ call.x = MaxAmount
  /\ ret.v = Num(MaxAmount)

-----------------------------------------------------------------------------
(* Claims about what a run of loadData publishes *)

\* the run has ended with a call of setData
Published == pc = "done" /\ setDataCalls > 0

\* C2 (as claimed): in the month-over-month growth series (users, revenue,
\* volume) built by loadData, every pair of adjacent trend periods whose
\* previous value is 0 and whose current value is greater than 0 emits a
\* point whose growth is 100.
C2_SeriesGrowthIs100 ==
  Published =>
    LET trends == RawTrends(rev, workbook)
        ok(series, key) ==
          \A i \in 1..Len(data.growthRates[series]) :
            (trends[i][key] = Num(0) /\ Gt(trends[i + 1][key], Num(0)))
              => data.growthRates[series][i].growth = Num(100)
    IN ok("user", "users") /\ ok("revenue", "revenue") /\ ok("volume", "volume")

\* C4: for every period row of the revenue sheet that loadData reads, the
\* KES revenue it publishes equals the KES cell plus, for each of NGN, UGX,
\* USD and CNY whose cell is non-empty, that cell's amount times that
\* currency's own rate, each exactly once.  With KES 1,200,000 and USD 1,000
\* the total is 1,329,382.7, and the growth against 1,000,000 rounds to
\* 32.94 percent.
C4_RevenueInKES ==
  Published =>
    LET monthlyRevenue == extractSheetData(workbook, "Monthly_Revenue")
        part(row, cur, rate) ==
          IF Truthy(Cell(row, cur)) THEN Mul(parseFloat(Cell(row, cur)), rate)
          ELSE Num(0)
        expected(row) ==
          Add(Add(Add(Add(part(row, "KES", Num(1)),
                          part(row, "NGN", exchangeRates["NGN"])),
                      part(row, "UGX", exchangeRates["UGX"])),
                  part(row, "USD", exchangeRates["USD"])),
              part(row, "CNY", exchangeRates["CNY"]))
        feb == FindIndex(monthlyRevenue, "YearMonth", YM_2025_02)
        hundredths(x) == (x[1] * 200 + x[2]) \div (2 * x[2])
    IN /\ feb # 0 => data.keyMetrics.totalRevenue = expected(monthlyRevenue[feb])
       /\ \A i \in 1..Len(data.monthlyTrends) :
            LET j == FindIndex(monthlyRevenue, "YearMonth", data.monthlyTrends[i].month)
            IN (j # 0 /\ Gt(expected(monthlyRevenue[j]), Num(0)))
                 => data.monthlyTrends[i].revenue = expected(monthlyRevenue[j])
       /\ monthlyRevenue = BaseRevenue =>
            /\ data.keyMetrics.totalRevenue = Norm(13293827, 10)
            /\ \A i \in 1..Len(data.growthRates.revenue) :
                 ( /\ data.growthRates.revenue[i].month = YM_2025_02
                   /\ data.monthlyTrends[i].month = YM_2025_01 )
                   => hundredths(data.growthRates.revenue[i].growth) = 3294

C4_Witness ==
  /\ Published
  /\ rev = "P2"
  /\ extractSheetData(workbook, "Monthly_Revenue") = BaseRevenue
  /\ data.keyMetrics.totalRevenue = Norm(13293827, 10)
  /\ \E i \in 1..Len(data.growthRates.revenue) :
       /\ data.growthRates.revenue[i].month = YM_2025_02
       /\ data.monthlyTrends[i].month = YM_2025_01
       /\ data.growthRates.revenue[i].growth = Norm(3293827, 100000)

\* C6 (as claimed): under the rolling windows of FinancialDashboard.js no
\* user is counted in both currentActiveByCurrency and
\* previousActiveByCurrency, so for each currency the two published counts
\* together never exceed the number of users that hold the currency; this
\* includes a last transaction exactly at the start of the current window.
C6_WindowsDoNotOverlap ==
  (Published /\ rev = "FD") =>
    LET walletBalances == extractSheetData(workbook, "Wallet_Balances")
    IN \A k \in 1..5 :
         Le(Add(data.mtdGrowth[k].currentActiveUsers,
                data.mtdGrowth[k].previousActiveUsers),
            Num(Count(walletBalances,
                      LAMBDA user : HoldsBalance(user, Currencies[k]))))

\* C7 (as claimed): under the rolling-window policy the published count of
\* active users is the number of users whose last transaction t satisfies
\* ref - 30 days <= t <= ref, for a reference instant ref read during the
\* run; users without a last transaction, or with one later than ref, are
\* not counted.
C7_ActiveIffInWindow ==
  (Published /\ rev \in {"P1", "FD"}) =>
    LET walletBalances == extractSheetData(workbook, "Wallet_Balances")
        inWindow(user, ref) ==
          LET c == Cell(user, "Last Transaction")
          IN /\ c # Undefined
             /\ IsNum(NewDate(c))
             /\ NewDate(c)[1] >= AddDays(ref, -30)
             /\ NewDate(c)[1] <= ref
    IN \E ref \in Now0..now :
         data.keyMetrics.activeUsers =
           Num(Count(walletBalances, LAMBDA user : inWindow(user, ref)))

\* C8 (as claimed): an active user counts toward a currency only with a
\* non-zero, non-blank balance in that same currency; a single user who is
\* active in the current window and holds nothing but NGN makes the NGN
\* count 1 and leaves the KES, UGX, USD and CNY counts at 0.
C8_CountsOwnCurrencyOnly ==
  (Published /\ rev \in {"P1", "P2"}) =>
    LET walletBalances == extractSheetData(workbook, "Wallet_Balances")
        nonZero(user, cur) ==
          /\ Truthy(Cell(user, cur))
          /\ IsNum(parseFloat(Cell(user, cur)))
          /\ parseFloat(Cell(user, cur)) # Num(0)
    IN /\ \A k \in 1..5 :
            Le(data.mtdGrowth[k].currentActiveUsers,
               Num(Count(walletBalances,
                         LAMBDA user : nonZero(user, Currencies[k]))))
       /\ ( /\ Len(walletBalances) = 1
            /\ data.keyMetrics.activeUsers = Num(1)
            /\ \A cur \in CurrencySet :
                 nonZero(walletBalances[1], cur) <=> cur = "NGN" )
          => \A k \in 1..5 :
               data.mtdGrowth[k].currentActiveUsers
                 = IF Currencies[k] = "NGN" THEN Num(1) ELSE Num(0)

\* C9 (as claimed): two runs of loadData over the same served workbook
\* publish the same snapshot, whatever the clock shows when each one runs.
C9_SameInputSameSnapshot ==
  (Published /\ rev \in {"FD", "P2"} /\ lastRun.kind = "data")
    => data = lastRun.data

\* C10 (as claimed): when one of the required sheets is absent from the
\* workbook, the run of loadData ends in the error state and never calls
\* setData.
C10_MissingSheetIsError ==
  (rev = "P2" /\ pc = "done" /\ fetchOk
     /\ ~(RequiredSheets \subseteq DOMAIN workbook))
    => (error # "null" /\ setDataCalls = 0)

\* the period keys of the transaction-count sheet other than 'Total'
PeriodKeys(monthlyTransactionCount) ==
  { Cell(monthlyTransactionCount[i], "YearMonth") :
      i \in {j \in 1..Len(monthlyTransactionCount) :
               Cell(monthlyTransactionCount[j], "YearMonth") # TotalKey} }

\* C11 (as claimed): the published trend series has one point per distinct
\* period key of the transaction-count sheet other than 'Total': no point is
\* labelled 'Total', and the length of the series is the number of distinct
\* keys, also when a key occurs in more than one row.
C11_OnePointPerPeriod ==
  Published =>
    LET mtc == extractSheetData(workbook, "Monthly_Transaction_Count")
    IN /\ \A i \in 1..Len(data.monthlyTrends) : data.monthlyTrends[i].month # TotalKey
       /\ Len(data.monthlyTrends) = Cardinality(PeriodKeys(mtc))

\* C12: for each of user, revenue and volume the growth series has length
\* max(0, trend length - 1); its i-th point carries the month of the trend
\* point after the i-th, and when the i-th trend value is positive its growth
\* is computed from that value and the next one only.
C12_GrowthPairsAdjacent ==
  Published =>
    LET trends == RawTrends(rev, workbook)
        n == Len(data.monthlyTrends)
        ok(series, key) ==
          /\ Len(data.growthRates[series]) = IF n = 0 THEN 0 ELSE n - 1
          /\ \A i \in 1..Len(data.growthRates[series]) :
               /\ data.growthRates[series][i].month = data.monthlyTrends[i + 1].month
               /\ Gt(trends[i][key], Num(0)) =>
                    data.growthRates[series][i].growth =
                      Mul(Div(Sub(trends[i + 1][key], trends[i][key]), trends[i][key]),
                          Num(100))
    IN ok("user", "users") /\ ok("revenue", "revenue") /\ ok("volume", "volume")

C12_Witness ==
  /\ Published
  /\ rev = "P2"
  /\ Len(data.monthlyTrends) = 3
  /\ Len(data.growthRates.revenue) = 2
  /\ data.growthRates.revenue[2].month = YM_2025_02
  /\ data.growthRates.revenue[2].growth = Norm(3293827, 100000)

\* C13 (as claimed): whatever the order of the rows of the transaction-count
\* sheet, each growth point compares a period with its calendar predecessor
\* among the periods present (the sheet has one row per period here).
C13_PairsInCalendarOrder ==
  Published =>
    LET mtc == extractSheetData(workbook, "Monthly_Transaction_Count")
        idx(ym) == DigitsValue(SubSeq(ym, 1, 4), 0) * 12 + DigitsValue(SubSeq(ym, 6, 7), 0)
    IN Cardinality(PeriodKeys(mtc)) = Len(TrendRows(mtc)) =>
         \A i \in 1..Len(data.growthRates.revenue) :
           LET prev == data.monthlyTrends[i].month
               curr == data.growthRates.revenue[i].month
           IN /\ idx(prev) < idx(curr)
              /\ \A k \in PeriodKeys(mtc) : ~(idx(prev) < idx(k) /\ idx(k) < idx(curr))

\* C14: when a period of the transaction-count sheet has no row in the
\* revenue sheet (or in the volume sheet), the run still publishes one trend
\* point per kept row; the point built for that period has revenue (volume)
\* 0, which transformForLogScale publishes as 0.1, and its transactions are
\* the Total cell of its own row.
C14_MissingRowsGiveZero ==
  Published =>
    LET mtc == extractSheetData(workbook, "Monthly_Transaction_Count")
        monthlyRevenue == extractSheetData(workbook, "Monthly_Revenue")
        monthlyVolume == extractSheetData(workbook, "Monthly_Transaction_Volume")
        rows == TrendRows(mtc)
        trends == RawTrends(rev, workbook)
        absent(sheet, ym) == FindIndex(sheet, "YearMonth", ym) = 0
    IN /\ Len(data.monthlyTrends) = Len(rows)
       /\ \A i \in 1..Len(rows) :
            LET ym == Cell(rows[i], "YearMonth")
            IN /\ data.monthlyTrends[i].month = ym
               /\ absent(monthlyRevenue, ym) =>
                    /\ trends[i].revenue = Num(0)
                    /\ data.monthlyTrends[i].revenue = Norm(1, 10)
               /\ absent(monthlyVolume, ym) =>
                    /\ trends[i].volume = Num(0)
                    /\ data.monthlyTrends[i].volume = Norm(1, 10)
               /\ (absent(monthlyRevenue, ym) \/ absent(monthlyVolume, ym)) =>
                    trends[i].transactions = Num(DigitsValue(Cell(rows[i], "Total"), 0))

C14_Witness ==
  /\ Published
  /\ rev = "P2"
  /\ \E i \in 1..Len(data.monthlyTrends) :
       /\ data.monthlyTrends[i].month = YM_2024_12
       /\ FindIndex(extractSheetData(workbook, "Monthly_Revenue"), "YearMonth", YM_2024_12) = 0
       /\ FindIndex(extractSheetData(workbook, "Monthly_Transaction_Volume"),
                    "YearMonth", YM_2024_12) = 0
       /\ data.monthlyTrends[i].transactions = Num(20)
       /\ data.monthlyTrends[i].revenue = Norm(1, 10)
       /\ data.monthlyTrends[i].volume = Norm(1, 10)

\* C15 (as claimed): the published monthlyTrends and growthRates carry the
\* values as computed: a trend point whose computed transactions, revenue,
\* users or volume is 0 is published with exactly 0 for it.
C15_PublishedValuesAreRaw ==
  Published =>
    LET trends == RawTrends(rev, workbook)
        raw(series, key) ==
          \A i \in 1..Len(data.growthRates[series]) :
            trends[i + 1][key] = Num(0) => data.growthRates[series][i][key] = Num(0)
    IN /\ \A i \in 1..Len(data.monthlyTrends) :
            \A key \in TrendKeys :
              trends[i][key] = Num(0) => data.monthlyTrends[i][key] = Num(0)
       /\ raw("user", "users") /\ raw("revenue", "revenue") /\ raw("volume", "volume")

\* C16 (as claimed): in an MTD row, a metric whose previous and current
\* values are both 0 has growth 0 and the row is marked as carrying no
\* signal: besides the currency, the growths and the values they are
\* computed from, the row has a field (or a growth that is not a number)
\* that tells it apart from a row with equal positive values.
C16_NoSignalIsMarked ==
  (Published /\ rev = "P2") =>
    LET metrics ==
          { <<"transactionCountGrowth", "currentTransactionCount", "previousTransactionCount">>,
            <<"transactionVolumeGrowth", "currentTransactionVolume", "previousTransactionVolume">>,
            <<"revenueGrowth", "currentRevenue", "previousRevenue">>,
            <<"userGrowth", "currentActiveUsers", "previousActiveUsers">> }
        valueFields ==
          {"currency", "volumeKES", "previousVolumeKES"}
            \cup UNION {{m[1], m[2], m[3]} : m \in metrics}
    IN \A k \in 1..Len(data.mtdGrowth) :
         LET row == data.mtdGrowth[k]
         IN \A m \in metrics :
              (row[m[2]] = Num(0) /\ row[m[3]] = Num(0)) =>
                /\ row[m[1]] \in {Num(0), Null}
                /\ (row[m[1]] = Null \/ \E f \in DOMAIN row : f \notin valueFields)

\* C17 (as claimed): in part_002 a user is active for February 2025
\* (January 2025) exactly when the last transaction lies in that month, from
\* its first instant up to, but not including, the first instant of the next
\* month; so every instant of January or February is in exactly one window.
C17_WholeCalendarMonth ==
  (Published /\ rev = "P2") =>
    LET walletBalances == extractSheetData(workbook, "Wallet_Balances")
        within(user, from, until) ==
          LET c == Cell(user, "Last Transaction")
          IN /\ c # Undefined
             /\ IsNum(NewDate(c))
             /\ NewDate(c)[1] >= from
             /\ NewDate(c)[1] < until
        jan == MkDate(2025, 0, 1, 0, 0, 0)
        feb == MkDate(2025, 1, 1, 0, 0, 0)
        mar == MkDate(2025, 2, 1, 0, 0, 0)
    IN /\ data.keyMetrics.activeUsers =
            Num(Count(walletBalances, LAMBDA user : within(user, feb, mar)))
       /\ data.keyMetrics.activePrevUsers =
            Num(Count(walletBalances, LAMBDA user : within(user, jan, feb)))

\* C18: in every MTD row the growth of the transaction count, of the volume
\* and of the revenue is computed from a current and a previous value in one
\* unit: count and revenue from the native values, the volume from the two
\* native values or from both converted to KES with one and the same rate,
\* which gives the same growth.
C18_GrowthInOneUnit ==
  Published =>
    \A k \in 1..Len(data.mtdGrowth) :
      LET row == data.mtdGrowth[k]
      IN /\ row.transactionCountGrowth =
              calcGrowth(row.currentTransactionCount, row.previousTransactionCount)
         /\ row.revenueGrowth = calcGrowth(row.currentRevenue, row.previousRevenue)
         /\ row.transactionVolumeGrowth =
              calcGrowth(row.currentTransactionVolume, row.previousTransactionVolume)
         /\ row.transactionVolumeGrowth = calcGrowth(row.volumeKES, row.previousVolumeKES)
         /\ \E rate \in {Num(1)} \cup {exchangeRates[c] : c \in DOMAIN exchangeRates} :
              /\ row.volumeKES = Mul(row.currentTransactionVolume, rate)
              /\ row.previousVolumeKES = Mul(row.previousTransactionVolume, rate)

C18_Witness ==
  /\ Published
  /\ rev = "P2"
  /\ \E k \in 1..Len(data.mtdGrowth) :
       /\ data.mtdGrowth[k].currency = "CNY"
       /\ data.mtdGrowth[k].previousTransactionVolume = Num(50)
       /\ data.mtdGrowth[k].currentTransactionVolume = Num(100)
       /\ data.mtdGrowth[k].volumeKES = Num(1780)
       /\ data.mtdGrowth[k].previousVolumeKES = Num(890)
       /\ data.mtdGrowth[k].transactionVolumeGrowth = Num(100)

\* C19: the MTD row of a currency depends on that currency's own cells only:
\* a run of part_001 or part_002 over a workbook that differs from the
\* served one only in the cells of one currency A publishes the same MTD row
\* for every other currency.
C19_RowsIndependent ==
  (Published /\ rev \in {"P1", "P2"}) =>
    \A A \in CurrencySet : \A cell \in ChangedCells(A) :
      LET other == Snapshot(rev, WithCurrencyCells(workbook, A, cell), now, now, now)
      IN \A k \in 1..Len(data.mtdGrowth) :
           Currencies[k] # A => other.mtdGrowth[k] = data.mtdGrowth[k]

C19_Witness ==
  /\ Published
  /\ rev = "P2"
  /\ LET other == Snapshot(rev, WithCurrencyCells(workbook, "KES", Dec(7)), now, now, now)
     IN /\ other.mtdGrowth[1] # data.mtdGrowth[1]
        /\ \A k \in 2..5 : other.mtdGrowth[k] = data.mtdGrowth[k]

\* C20 (as claimed): the published total of users is the 'Total Users'
\* value of User_Statistics when that row is present, and the number of
\* rows of Wallet_Balances when it is absent.
C20_TotalUsersOrRowCount ==
  Published =>
    LET userStats == extractSheetData(workbook, "User_Statistics")
        walletBalances == extractSheetData(workbook, "Wallet_Balances")
        i == FindIndex(userStats, "Metric", TotalUsersKey)
    IN data.keyMetrics.totalUsers =
         IF i # 0 THEN parseInt(StripCommas(Cell(userStats[i], "Value")))
         ELSE Num(Len(walletBalances))

\* whether two rows of a monthly sheet carry the same period key
DuplicatePeriods(rows) ==
  \E i \in 1..Len(rows) : \E j \in 1..Len(rows) :
    /\ i < j
    /\ Cell(rows[i], "YearMonth") # Undefined
    /\ Cell(rows[i], "YearMonth") = Cell(rows[j], "YearMonth")

\* what a run hands to the page: the data object and the error state
SnapshotFields ==
  {"keyMetrics", "currencyData", "monthlyTrends", "mtdGrowth", "growthRates",
   "exchangeRates"}

\* C21 (as claimed): when the count sheet holds two rows with the same
\* period key, the published figures are those of the first of them in sheet
\* order, and the run reports the duplicate: it sets the error state or
\* publishes a field beside the six figures of the snapshot.
C21_DuplicatesAreReported ==
  (Published /\ rev \in {"FD", "P2"}
     /\ DuplicatePeriods(extractSheetData(workbook, "Monthly_Transaction_Count"))) =>
    LET mtc == extractSheetData(workbook, "Monthly_Transaction_Count")
        first == FindIndex(mtc, "YearMonth", YM_2025_02)
    IN /\ first # 0 =>
            \A j \in 1..Len(mtc) :
              Cell(mtc[j], "YearMonth") = YM_2025_02 => first <= j
       /\ first # 0 =>
            data.keyMetrics.totalTransactions =
              parseFloat(OrZero(Cell(mtc[first], "Total")))
       /\ \/ error # "null"
          \/ DOMAIN data # SnapshotFields

\* the snapshots a finished invocation over the workbook wb can have
\* published, one for every way its clock reads can fall
SnapshotsOf(wb) ==
  IF Thrown(rev, wb) # "none" THEN {}
  ELSE { Snapshot(rev, wb, r1, r2, r3) :
           r1 \in Now0..ClockMax, r2 \in Now0..ClockMax, r3 \in Now0..ClockMax }

BothFinished == pc = "done" /\ second.pc = "done"

\* C22: after two invocations of loadData whose awaits interleaved have both
\* finished, data is the whole snapshot computed by one of them from its own
\* workbook (or the initial value when neither reached setData), never a
\* mixture of the two.
C22_NoMixedSnapshot ==
  BothFinished =>
    IF setDataCalls = 0 THEN data = InitialData(rev)
    ELSE data \in SnapshotsOf(workbook) \cup SnapshotsOf(second.workbook)

\* both invocations published, their snapshots differ, and the one that
\* started first finished last
C22_Witness ==
  /\ BothFinished
  /\ rev = "P2"
  /\ setDataCalls = 2
  /\ SnapshotsOf(workbook) \cap SnapshotsOf(second.workbook) = {}
  /\ data \in SnapshotsOf(workbook)

\* the run of loadData under way or finished has caught an exception
Caught == logged # "none"

\* C23: in the revisions with an error state, loadData first sets loading
\* and clears the error, and touches nothing else before its last step; it
\* always ends with loading false; a run that caught an exception has set
\* the error state and left data at its initial value, with no setData; a
\* run that caught none has called setData once and left the error null.
C23_LoadingEndsErrorOrData ==
  /\ [](HasErrorState(rev) =>
          /\ pc \in {"fetch", "buffer"} =>
               (loading /\ error = "null" /\ data = InitialData(rev)
                  /\ setDataCalls = 0)
          /\ pc = "done" => ~loading
          /\ (pc = "done" /\ Caught) =>
               (error = logged /\ error # "null" /\ data = InitialData(rev)
                  /\ setDataCalls = 0)
          /\ (pc = "done" /\ ~Caught) =>
               (error = "null" /\ setDataCalls = 1))
  /\ (HasErrorState(rev) /\ loading) ~> (pc = "done" /\ ~loading)

\* a run of FinancialDashboard.js that threw in its synchronous part
C23_Witness ==
  /\ rev = "FD"
  /\ pc = "done"
  /\ fetchOk
  /\ error = "TypeError"
  /\ ~loading
  /\ data = InitialData(rev)

\* the errors of the fetch and of reading its body
FetchErrors == {"NetworkError", "Error: Failed to fetch Excel file"}

\* C24 (as claimed): a run of App.js whose fetch and body read succeeded,
\* over a workbook that holds the nine sheets it reads, has called setData
\* with the computed snapshot when it clears loading: the page is not shown
\* with the initial all-zero data.
C24_AppPublishes ==
  (rev = "App" /\ pc = "done" /\ ~loading /\ fetchOk
     /\ logged \notin FetchErrors
     /\ AppSheets \subseteq DOMAIN workbook) =>
    /\ setDataCalls > 0
    /\ data # InitialData(rev)

\* C25 (as claimed): in every published snapshot, the current active-user
\* count of each currency row of the MTD table is at most the number of
\* distinct active users among the key metrics.
C25_PerCurrencyAtMostDistinct ==
  Published =>
    \A k \in 1..Len(data.mtdGrowth) :
      Le(data.mtdGrowth[k].currentActiveUsers, data.keyMetrics.activeUsers)

\* the rows of the count sheet for the period ym
PeriodRowsOf(wb, ym) ==
  LET mtc == extractSheetData(wb, "Monthly_Transaction_Count")
  IN {i \in 1..Len(mtc) : Cell(mtc[i], "YearMonth") = ym}

C27_SeriesPointIsOverallGrowth ==
  (Published /\ rev = "P2") =>
    LET trends == RawTrends(rev, workbook)
    IN \A i \in 1..Len(trends) :
         (i < Len(trends) /\ trends[i].month = YM_2025_01
            /\ trends[i + 1].month = YM_2025_02) =>
           /\ data.growthRates.revenue[i].month = YM_2025_02
           /\ data.growthRates.revenue[i].growth = data.keyMetrics.overallRevenueGrowth
           /\ data.growthRates.volume[i].month = YM_2025_02
           /\ data.growthRates.volume[i].growth = data.keyMetrics.overallVolumeGrowth

\* the revision whose MTD volume growth is compared with that of r
OtherVolumeRevision(r) == IF r = "P2" THEN "FD" ELSE "P2"

NotPositive(a) == IsNum(a) /\ a[1] <= 0

\* C29: transformForLogScale(dataArray, keys) returns an array of the same
\* length and order whose items have the fields of the input items; a field
\* is 0.1 where it is a listed key whose value is <= 0 and is the input's
\* value everywhere else, the month and the growth included, whether the
\* growth is negative or null; the array it was given is not changed.
C29_OnlyListedNonPositiveReplaced ==
  /\ [](Returned("transformForLogScale") =>
          /\ Len(ret.v) = Len(call.x)
          /\ \A i \in 1..Len(call.x) :
               /\ DOMAIN ret.v[i] = DOMAIN call.x[i]
               /\ \A k \in DOMAIN call.x[i] :
                    ret.v[i][k] =
                      IF k \in call.keys /\ NotPositive(call.x[i][k])
                        THEN Norm(1, 10)
                        ELSE call.x[i][k])
  /\ [][call.fn = "transformForLogScale" => call' = call]_vars

\* a revenue of 0 replaced beside a null growth and a negative one
C29_Witness ==
  /\ Returned("transformForLogScale")
  /\ Len(call.x) = 2
  /\ call.x[1].revenue = Num(0) /\ ret.v[1].revenue = Norm(1, 10)
  /\ IsNull(call.x[1].growth) /\ IsNull(ret.v[1].growth)
  /\ call.x[2].revenue = Num(5) /\ ret.v[2].revenue = Num(5)
  /\ call.x[2].growth = Num(-50) /\ ret.v[2].growth = Num(-50)

====
